---- MODULE Spec2Model ----
(***************************************************************************)
(* Traffic simulation (sanjaywick/traffic_simulation_system):              *)
(* the road network and router of TrafficManager, the trip ledger and its  *)
(* merge sort, Vehicle.drive with rerouting, TrafficSimulation.add_vehicle *)
(* and the simpy event loop that drives them.                              *)
(*                                                                         *)
(* Units.  Python floats are modelled by exact integers: every duration is *)
(* held in ticks of 1/TimeScale simulated minute, so that each edge's      *)
(* travel time (distance/max_speed)/(multiplier*factor) is a whole number  *)
(* of ticks; the tables of multipliers and factors are held in tenths.     *)
(***************************************************************************)
EXTENDS Integers, Sequences, FiniteSets, TLC

VARIABLES
    trip_records,      \* TrafficManager.trip_records: the ledger, a sequence
    analysis,          \* what the last analyze_traffic_data call returned
    edges,             \* road_network's edge set: set of <<source, target>>
    traffic_condition, \* road_network.edges[s,t]['traffic_condition'], 1..4
    call,              \* the last direct find_shortest_path or update_road_traffic call
    now,               \* env.now, in ticks
    queue,             \* the environment's scheduled events
    eid,               \* the environment's event counter
    lights,            \* traffic_manager.traffic_lights: location -> TrafficLight
    vehicles,          \* the Vehicle objects, in creation order
    run_state,         \* "setup", "running", "stopped" (horizon) or "raised"
    last_add,          \* the last add_vehicle call and its outcome
    simulation_time    \* TrafficSimulation.simulation_time, in simulated minutes

ledgerVars == <<trip_records, analysis>>
netVars == <<edges, traffic_condition>>
simVars == <<now, queue, eid, lights, vehicles, run_state, last_add, simulation_time>>
vars == <<trip_records, analysis, edges, traffic_condition, call,
          now, queue, eid, lights, vehicles, run_state, last_add, simulation_time>>

\* ------------------------------------------------------------------ bounds
\* How many of the built-in cities (in create_road_network's order) the
\* modelled network holds; the roads are the built-in ones between them.
NumCities == 4
\* Ledger length explored by the ledger specification.
MaxTrips == 4
\* Travel times a recorded trip may carry in the ledger specification: 1..MaxTime.
MaxTime == 3
\* Random congestion draws may move the network at most this many level
\* steps away from the built-in levels (a draw can always come out "no move").
MaxDrift == 2
\* The same for the router specification, which calls the router from every
\* start to every goal at every level assignment it reaches.
MaxRouterDrift == 2
\* The horizon passed to env.run(until=...), in simulated minutes.
SimulationTime == 900
\* How many vehicles a run of the drive specification starts with.
MaxVehicles == 1
\* The updater draws a non-zero change_factor in its first MaxUpdates ticks
\* only; a later tick draws 0 for every sampled road, which moves no level.
MaxUpdates == 2
\* A horizon short enough for the spawner to reach simulation_time * 0.9.
ShortSimulationTime == 44
\* The horizons of the light specification, in simulated minutes: one long
\* enough for a light with a 60-minute cycle to begin its 101st and 102nd
\* cycle, and one of a few cycles.
LightRunTime == 6100
ShortLightRunTime == 200
\* The horizon of the green-time specification, in simulated minutes: one
\* pass of the light's loop top.
GreenRunTime == 1
\* How many cycles a light of the green-time specification has behind it when
\* it has any: enough for a smart light to predict from its history.
PastCycles == 10
\* The longest traffic history optimize_signals_dp is called on directly.
MaxHistory == 5
\* The horizon of the manager specification, in simulated minutes: long
\* enough for every light to begin its twelfth cycle of 90 minutes.
ManagerRunTime == 1000

\* ------------------------------------------------------------------ enums
\* utils/enums.py TrafficCondition: the member values, in definition order.
LIGHT == 1
MODERATE == 2
HEAVY == 3
CONGESTED == 4
TrafficCondition == {LIGHT, MODERATE, HEAVY, CONGESTED}

\* An enum member is its class (the module that defines it), name and value;
\* members of different classes are different objects even with equal values.
EnumsVehicleType ==
    { [class |-> "utils.enums", name |-> "TRUCK", value |-> 1],
      [class |-> "utils.enums", name |-> "CAR", value |-> 2],
      [class |-> "utils.enums", name |-> "BUS", value |-> 3],
      [class |-> "utils.enums", name |-> "MOTORCYCLE", value |-> 4] }

\* models/vehicle.py defines its own VehicleType after importing the one of
\* utils.enums; the class body of Vehicle below it sees this one.
VehicleVehicleType ==
    { [class |-> "models.vehicle", name |-> "TRUCK", value |-> 1],
      [class |-> "models.vehicle", name |-> "CAR", value |-> 2],
      [class |-> "models.vehicle", name |-> "BUS", value |-> 3],
      [class |-> "models.vehicle", name |-> "MOTORCYCLE", value |-> 4] }

Member(cls, nm) == CHOOSE m \in cls : m.name = nm

\* Vehicle.SPEED_MULTIPLIERS, in tenths: a dict keyed by the members of the
\* VehicleType class of models/vehicle.py.
SPEED_MULTIPLIERS ==
    [k \in VehicleVehicleType |->
        CASE k.name = "TRUCK" -> 6
          [] k.name = "CAR" -> 10
          [] k.name = "BUS" -> 8
          [] k.name = "MOTORCYCLE" -> 15]

\* Vehicle.TRAFFIC_FACTOR, in tenths.
TRAFFIC_FACTOR ==
    [c \in TrafficCondition |->
        CASE c = LIGHT -> 10
          [] c = MODERATE -> 8
          [] c = HEAVY -> 5
          [] c = CONGESTED -> 2]

\* ------------------------------------------------------------------ network
\* create_road_network: the nodes, in insertion order.
AllCities ==
    << "Mumbai", "Pune", "Nashik", "Nagpur", "Hyderabad",
       "Bangalore", "Chennai", "Kolkata", "Delhi" >>

Road(s, t, d, rt, ms, tc) ==
    [source |-> s, target |-> t, distance |-> d, road_type |-> rt,
     max_speed |-> ms, traffic_condition |-> tc]

\* create_road_network: the roads list, in order.
AllRoads ==
    << Road("Mumbai", "Pune", 150, "highway", 100, MODERATE),
       Road("Pune", "Mumbai", 150, "highway", 100, MODERATE),
       Road("Mumbai", "Nashik", 180, "highway", 80, LIGHT),
       Road("Nashik", "Mumbai", 180, "highway", 80, MODERATE),
       Road("Mumbai", "Hyderabad", 720, "national_highway", 120, LIGHT),
       Road("Hyderabad", "Mumbai", 720, "national_highway", 120, LIGHT),
       Road("Pune", "Nashik", 200, "state_highway", 60, HEAVY),
       Road("Nashik", "Pune", 200, "state_highway", 60, HEAVY),
       Road("Pune", "Bangalore", 840, "national_highway", 100, MODERATE),
       Road("Bangalore", "Pune", 840, "national_highway", 100, MODERATE),
       Road("Nashik", "Nagpur", 600, "national_highway", 80, LIGHT),
       Road("Nagpur", "Nashik", 600, "national_highway", 80, LIGHT),
       Road("Nagpur", "Hyderabad", 500, "national_highway", 100, LIGHT),
       Road("Hyderabad", "Nagpur", 500, "national_highway", 100, LIGHT),
       Road("Hyderabad", "Bangalore", 570, "national_highway", 120, MODERATE),
       Road("Bangalore", "Hyderabad", 570, "national_highway", 120, MODERATE),
       Road("Bangalore", "Chennai", 350, "national_highway", 110, MODERATE),
       Road("Chennai", "Bangalore", 350, "national_highway", 110, MODERATE),
       Road("Chennai", "Hyderabad", 630, "national_highway", 100, LIGHT),
       Road("Hyderabad", "Chennai", 630, "national_highway", 100, LIGHT),
       Road("Delhi", "Nagpur", 1100, "national_highway", 120, LIGHT),
       Road("Nagpur", "Delhi", 1100, "national_highway", 120, LIGHT),
       Road("Delhi", "Kolkata", 1500, "national_highway", 110, MODERATE),
       Road("Kolkata", "Delhi", 1500, "national_highway", 110, MODERATE),
       Road("Kolkata", "Chennai", 1700, "national_highway", 100, LIGHT),
       Road("Chennai", "Kolkata", 1700, "national_highway", 100, LIGHT) >>

Min(a, b) == IF a < b THEN a ELSE b

\* road_network.nodes() of the modelled network.
Cities == { AllCities[i] : i \in 1..Min(NumCities, Len(AllCities)) }

IsModelledRoad(r) == r.source \in Cities /\ r.target \in Cities

\* The roads of the modelled network, in the order of the roads list.
Roads == SelectSeq(AllRoads, IsModelledRoad)

BuiltInEdges == { <<Roads[i].source, Roads[i].target>> : i \in 1..Len(Roads) }

\* road_network.edges[s, t]: the attribute dict of an edge.
EdgeData(s, t) ==
    Roads[CHOOSE i \in 1..Len(Roads) : Roads[i].source = s /\ Roads[i].target = t]

BuiltInCondition == [e \in BuiltInEdges |-> EdgeData(e[1], e[2]).traffic_condition]

\* Ticks per simulated minute: makes every travel time below a whole number.
TimeScale == 48 * 11

\* edge_data['distance'] / edge_data['max_speed'], in ticks.
BaseTicks(s, t) ==
    (EdgeData(s, t).distance * 60 * TimeScale) \div EdgeData(s, t).max_speed

\* (distance / max_speed) / (multiplier * traffic_factor), an hour count in the
\* code, here in ticks (hours * 60 * TimeScale); mult10 and factor10 are tenths.
TravelTicks(s, t, mult10, factor10) ==
    (BaseTicks(s, t) * 100) \div (mult10 * factor10)

\* The integer model of the floats above is exact on the modelled roads.
TicksAreExact ==
    \A e \in BuiltInEdges :
        /\ (EdgeData(e[1], e[2]).distance * 60 * TimeScale) % EdgeData(e[1], e[2]).max_speed = 0
        /\ \A k \in VehicleVehicleType : \A c \in TrafficCondition :
              (BaseTicks(e[1], e[2]) * 100) % (SPEED_MULTIPLIERS[k] * TRAFFIC_FACTOR[c]) = 0

\* ------------------------------------------------------------------ router
\* Python's order on the city names (str.__lt__), as ranks.
StrRank ==
    [n \in {AllCities[i] : i \in 1..Len(AllCities)} |->
        CASE n = "Bangalore" -> 1 [] n = "Chennai" -> 2 [] n = "Delhi" -> 3
          [] n = "Hyderabad" -> 4 [] n = "Kolkata" -> 5 [] n = "Mumbai" -> 6
          [] n = "Nagpur" -> 7 [] n = "Nashik" -> 8 [] n = "Pune" -> 9]

\* list.__lt__ on lists of city names.
RECURSIVE ListLess(_, _)
ListLess(a, b) ==
    IF Len(b) = 0 THEN FALSE
    ELSE IF Len(a) = 0 THEN TRUE
    ELSE IF a[1] # b[1] THEN StrRank[a[1]] < StrRank[b[1]]
    ELSE ListLess(Tail(a), Tail(b))

\* tuple.__lt__ on the heap entries (cost, node, path).
EntryLess(x, y) ==
    IF x[1] # y[1] THEN x[1] < y[1]
    ELSE IF x[2] # y[2] THEN StrRank[x[2]] < StrRank[y[2]]
    ELSE ListLess(x[3], y[3])

\* heapq.heappop: the least entry of the heap.
HeapMin(pq) == CHOOSE x \in pq : \A y \in pq \ {x} : EntryLess(x, y)

\* road_network.neighbors(node) on the edge set E.
Neighbors(E, node) == { e[2] : e \in { d \in E : d[1] = node } }

PathResult(p) == [status |-> "path", path |-> p]
NonePath == [status |-> "None", path |-> <<>>]
KeyError == [status |-> "KeyError", path |-> <<>>]

\* The travel_time find_shortest_path adds for edge (node, neighbor).
EdgeCost(tc, node, neighbor, mult10) ==
    TravelTicks(node, neighbor, mult10, TRAFFIC_FACTOR[tc[<<node, neighbor>>]])

\* find_shortest_path: the while loop over the heap.
RECURSIVE dijkstraLoop(_, _, _, _, _, _)
dijkstraLoop(pq, visited, goal, mult10, E, tc) ==
    IF pq = {}
    THEN NonePath
    ELSE LET top == HeapMin(pq)
             rest == pq \ {top}
             cost == top[1]
             node == top[2]
             new_path == Append(top[3], node)
         IN  IF node \in visited
             THEN dijkstraLoop(rest, visited, goal, mult10, E, tc)
             ELSE IF node = goal
             THEN PathResult(new_path)
             ELSE dijkstraLoop(
                    rest \cup { <<cost + EdgeCost(tc, node, nb, mult10), nb, new_path>> :
                                   nb \in Neighbors(E, node) \ (visited \cup {node}) },
                    visited \cup {node}, goal, mult10, E, tc)

\* A router that reads the levels the network was built with (a stale copy)
\* instead of the current ones.
find_shortest_path_stale(E, tc, start, goal, vehicle_type) ==
    IF start = goal
    THEN PathResult(<<start>>)
    ELSE IF vehicle_type \notin DOMAIN SPEED_MULTIPLIERS
    THEN KeyError
    ELSE dijkstraLoop({<<0, start, <<>> >>}, {}, goal, SPEED_MULTIPLIERS[vehicle_type],
                      E, [e \in DOMAIN tc |-> BuiltInCondition[e]])

\* A router that returns an empty list where no path exists.
find_shortest_path_empty_for_none(E, tc, start, goal, vehicle_type) ==
    IF start = goal
    THEN PathResult(<<start>>)
    ELSE IF vehicle_type \notin DOMAIN SPEED_MULTIPLIERS
    THEN KeyError
    ELSE IF dijkstraLoop({<<0, start, <<>> >>}, {}, goal, SPEED_MULTIPLIERS[vehicle_type], E, tc)
              = NonePath
    THEN PathResult(<<>>)
    ELSE dijkstraLoop({<<0, start, <<>> >>}, {}, goal, SPEED_MULTIPLIERS[vehicle_type], E, tc)

\* A router that looks the class up before it compares start and goal.
find_shortest_path_lookup_first(E, tc, start, goal, vehicle_type) ==
    IF vehicle_type \notin DOMAIN SPEED_MULTIPLIERS
    THEN KeyError
    ELSE IF start = goal
    THEN PathResult(<<start>>)
    ELSE dijkstraLoop({<<0, start, <<>> >>}, {}, goal, SPEED_MULTIPLIERS[vehicle_type], E, tc)

\* A router for which a road at HEAVY or CONGESTED level cannot be used.
find_shortest_path_closed_when_heavy(E, tc, start, goal, vehicle_type) ==
    IF start = goal
    THEN PathResult(<<start>>)
    ELSE IF vehicle_type \notin DOMAIN SPEED_MULTIPLIERS
    THEN KeyError
    ELSE dijkstraLoop({<<0, start, <<>> >>}, {}, goal, SPEED_MULTIPLIERS[vehicle_type],
                      { e \in E : tc[e] < HEAVY }, tc)

\* TrafficManager.find_shortest_path on the network (E, tc).
find_shortest_path(E, tc, start, goal, vehicle_type) ==
    IF start = goal
    THEN PathResult(<<start>>)
    ELSE IF vehicle_type \notin DOMAIN SPEED_MULTIPLIERS
    THEN KeyError
    ELSE dijkstraLoop({<<0, start, <<>> >>}, {}, goal, SPEED_MULTIPLIERS[vehicle_type], E, tc)

\* random.random() as drawn by the model, in hundredths.
RandomUnit == {0, 20, 99}

\* The change_factor values the program passes, in hundredths: the vehicle's
\* entry (0.1) and exit (-0.05) nudges and samples of uniform(-0.3, 0.3).
ChangeFactors == {-30, -5, 0, 10, 30}

Abs(x) == IF x < 0 THEN -x ELSE x

\* An update that steps two levels at a time.
update_road_traffic_two_levels(tc, source, target, change_factor, r) ==
    LET level == tc[<<source, target>>]
    IN  IF change_factor > 0 /\ level < CONGESTED
        THEN IF r < change_factor
             THEN [tc EXCEPT ![<<source, target>>] = Min(level + 2, CONGESTED)]
             ELSE tc
        ELSE IF change_factor < 0 /\ level > LIGHT
        THEN IF r < Abs(change_factor)
             THEN [tc EXCEPT ![<<source, target>>] = level - 1]
             ELSE tc
        ELSE tc

\* TrafficManager.update_road_traffic: the levels after the call, r being the
\* value random.random() returns if it is drawn.
update_road_traffic(tc, source, target, change_factor, r) ==
    LET level == tc[<<source, target>>]
    IN  IF change_factor > 0 /\ level < CONGESTED
        THEN IF r < change_factor
             THEN [tc EXCEPT ![<<source, target>>] = level + 1]
             ELSE tc
        ELSE IF change_factor < 0 /\ level > LIGHT
        THEN IF r < Abs(change_factor)
             THEN [tc EXCEPT ![<<source, target>>] = level - 1]
             ELSE tc
        ELSE tc

RECURSIVE SumOver(_, _)
SumOver(f, S) ==
    IF S = {} THEN 0
    ELSE LET x == CHOOSE y \in S : TRUE IN f[x] + SumOver(f, S \ {x})

\* How many level steps the network is away from the built-in levels.
Drift(tc) == SumOver([e \in DOMAIN tc |-> Abs(tc[e] - BuiltInCondition[e])], DOMAIN tc)

\* ------------------------------------------------------------------ ledger
\* TrafficManager.merge: the while loop, then the two extends.
RECURSIVE mergeLoop(_, _, _, _, _)
mergeLoop(left, right, i, j, result) ==
    IF i <= Len(left) /\ j <= Len(right)
    THEN IF left[i].travel_time < right[j].travel_time
         THEN mergeLoop(left, right, i + 1, j, Append(result, left[i]))
         ELSE mergeLoop(left, right, i, j + 1, Append(result, right[j]))
    ELSE result \o SubSeq(left, i, Len(left)) \o SubSeq(right, j, Len(right))

\* A merge that forgets result.extend(right[j:]).
RECURSIVE mergeLoopNoRightTail(_, _, _, _, _)
mergeLoopNoRightTail(left, right, i, j, result) ==
    IF i <= Len(left) /\ j <= Len(right)
    THEN IF left[i].travel_time < right[j].travel_time
         THEN mergeLoopNoRightTail(left, right, i + 1, j, Append(result, left[i]))
         ELSE mergeLoopNoRightTail(left, right, i, j + 1, Append(result, right[j]))
    ELSE result \o SubSeq(left, i, Len(left))

merge_without_right_tail(left, right) ==
    mergeLoopNoRightTail(left, right, 1, 1, <<>>)

merge(left, right) ==
    mergeLoop(left, right, 1, 1, <<>>)

RECURSIVE merge_sort_by_time(_)
merge_sort_by_time(trips) ==
    IF Len(trips) <= 1
    THEN trips
    ELSE LET mid == Len(trips) \div 2
             left == merge_sort_by_time(SubSeq(trips, 1, mid))
             right == merge_sort_by_time(SubSeq(trips, mid + 1, Len(trips)))
         IN  merge(left, right)

\* TrafficManager.record_trip: the ledger after the append.
\* A record_trip that inserts at the front.
record_trip_at_front(ledger, vehicle_id, vehicle_type, start, destination, route, travel_time, travel_data, timestamp) ==
    <<[vehicle_id |-> vehicle_id, vehicle_type |-> vehicle_type,
       start |-> start, destination |-> destination, route |-> route,
       travel_time |-> travel_time, timestamp |-> timestamp,
       travel_data |-> travel_data]>> \o ledger

record_trip(ledger, vehicle_id, vehicle_type, start, destination, route, travel_time, travel_data, timestamp) ==
    Append(ledger,
           [vehicle_id |-> vehicle_id, vehicle_type |-> vehicle_type,
            start |-> start, destination |-> destination, route |-> route,
            travel_time |-> travel_time, timestamp |-> timestamp,
            travel_data |-> travel_data])

NoData == [no_data |-> "No trip data available for analysis"]

\* An analysis without the test for an empty ledger: the sort returns the
\* empty list and the average divides by total_trips = 0.
analyze_traffic_data_without_empty_test(ledger) ==
    IF Len(ledger) = 0
    THEN [raised |-> "ZeroDivisionError"]
    ELSE LET sorted_trips == merge_sort_by_time(ledger)
         IN  [sorted_trips |-> sorted_trips,
              total_trips |-> Len(sorted_trips),
              fastest_trip |-> sorted_trips[1].vehicle_id,
              slowest_trip |-> sorted_trips[Len(sorted_trips)].vehicle_id]

\* TrafficManager.analyze_traffic_data: the sentinel on an empty ledger, else
\* the statistics that depend on the sort.
analyze_traffic_data(ledger) ==
    IF Len(ledger) = 0
    THEN NoData
    ELSE LET sorted_trips == merge_sort_by_time(ledger)
         IN  [sorted_trips |-> sorted_trips,
              total_trips |-> Len(sorted_trips),
              fastest_trip |-> sorted_trips[1].vehicle_id,
              slowest_trip |-> sorted_trips[Len(sorted_trips)].vehicle_id]

Unset == [unset |-> TRUE]

\* ------------------------------------------------------- ledger specification
\* The ledger alone: record_trip and analyze_traffic_data called in any order
\* on a ledger that starts empty; the recorded travel times range over
\* 1..MaxTime and the vehicle ids number the records in insertion order.
IdleSim ==
    /\ now = 0
    /\ queue = {}
    /\ eid = 0
    /\ lights = <<>>
    /\ vehicles = <<>>
    /\ run_state = "setup"
    /\ last_add = Unset
    /\ simulation_time = SimulationTime

NoCall == [no_call |-> TRUE]

InitLedger ==
    /\ trip_records = <<>>
    /\ analysis = Unset
    /\ edges = BuiltInEdges
    /\ traffic_condition = BuiltInCondition
    /\ call = NoCall
    /\ IdleSim

LedgerRecordTrip ==
    /\ Len(trip_records) < MaxTrips
    /\ \E t \in 1..MaxTime :
          trip_records' = record_trip(trip_records, Len(trip_records) + 1,
                                      Member(VehicleVehicleType, "CAR"), "Mumbai", "Pune",
                                      <<"Mumbai", "Pune">>, t, <<>>, now)
    /\ UNCHANGED <<analysis, netVars, call, simVars>>

LedgerAnalyze ==
    /\ analysis' = analyze_traffic_data(trip_records)
    /\ UNCHANGED <<trip_records, netVars, call, simVars>>

NextLedger == LedgerRecordTrip \/ LedgerAnalyze

SpecLedger == InitLedger /\ [][NextLedger]_vars

HasStats == analysis # Unset /\ analysis # NoData

\* The index at which the record with this vehicle id was inserted.
InsertedAt(id) == CHOOSE k \in 1..Len(trip_records) : trip_records[k].vehicle_id = id

\* C1: the sort of analyze_traffic_data is stable: two records with equal
\* travel_time appear in the sorted output in their ledger insertion order.
SortIsStable ==
    HasStats =>
        \A p, q \in 1..Len(analysis.sorted_trips) :
            (p < q /\ analysis.sorted_trips[p].travel_time = analysis.sorted_trips[q].travel_time)
                => InsertedAt(analysis.sorted_trips[p].vehicle_id)
                     < InsertedAt(analysis.sorted_trips[q].vehicle_id)

\* C2: merge_sort_by_time returns a permutation of the ledger it was given
\* (the first total_trips records: the ledger only grows) whose travel_time
\* values are non-decreasing.
SortIsSortedPermutation ==
    HasStats =>
        LET out == analysis.sorted_trips
            n == analysis.total_trips
        IN  /\ n <= Len(trip_records)
            /\ Len(out) = n
            /\ \A k \in 1..n :
                  Cardinality({ i \in 1..n : out[i] = trip_records[k] }) = 1
            /\ \A i \in 1..(n - 1) : out[i].travel_time <= out[i + 1].travel_time

\* A ledger with duplicate and out-of-order travel times has been sorted.
SortedWithDuplicates ==
    /\ HasStats
    /\ analysis.total_trips = Len(trip_records)
    /\ \E i, j, k \in 1..Len(trip_records) :
          /\ i < j /\ j < k
          /\ trip_records[i].travel_time > trip_records[j].travel_time
          /\ trip_records[j].travel_time = trip_records[k].travel_time

\* ------------------------------------------------------- router specification
\* find_shortest_path as a function of the network: the edge set is an input
\* (the built-in roads, or those with every road into one city removed), the
\* levels move by update_road_traffic calls, and the router is called from any
\* start, to any goal.  One call is looked at at a time: the network is updated
\* between calls, not while a call's result is held.
EdgeInputs ==
    {BuiltInEdges} \cup { { e \in BuiltInEdges : e[2] # n } : n \in Cities }

\* Class values the router is called with: the slowest and the fastest class of
\* the speed table, and a member of the VehicleType of utils.enums.
RouterClasses ==
    { Member(VehicleVehicleType, "TRUCK"), Member(VehicleVehicleType, "MOTORCYCLE"),
      Member(EnumsVehicleType, "CAR") }

InitRouter ==
    /\ trip_records = <<>>
    /\ analysis = Unset
    /\ edges \in EdgeInputs
    /\ traffic_condition = [e \in edges |-> BuiltInCondition[e]]
    /\ call = NoCall
    /\ IdleSim

RouterUpdate ==
    /\ call = NoCall
    /\ \E e \in edges : \E f \in ChangeFactors : \E r \in RandomUnit :
          /\ traffic_condition' = update_road_traffic(traffic_condition, e[1], e[2], f, r)
          /\ Drift(traffic_condition') <= MaxRouterDrift
    /\ call' = NoCall
    /\ UNCHANGED <<ledgerVars, edges, simVars>>

RouterCall ==
    /\ call = NoCall
    /\ \E start \in Cities : \E goal \in Cities : \E vt \in RouterClasses :
          call' = [start |-> start, goal |-> goal, vehicle_type |-> vt,
                   result |-> find_shortest_path(edges, traffic_condition, start, goal, vt)]
    /\ UNCHANGED <<ledgerVars, netVars, simVars>>

\* The caller has taken the result.
RouterReturn ==
    /\ call # NoCall
    /\ call' = NoCall
    /\ UNCHANGED <<ledgerVars, netVars, simVars>>

NextRouter == RouterUpdate \/ RouterCall \/ RouterReturn

SpecRouter == InitRouter /\ [][NextRouter]_vars

\* Every simple path of E that extends prefix to goal.
RECURSIVE SimplePaths(_, _, _)
SimplePaths(E, prefix, goal) ==
    LET last == prefix[Len(prefix)]
    IN  IF last = goal
        THEN {prefix}
        ELSE UNION { SimplePaths(E, Append(prefix, nb), goal) :
                       nb \in { n \in Neighbors(E, last) :
                                  \A i \in 1..Len(prefix) : prefix[i] # n } }

\* The cost of a path at the levels tc: the sum of its edges' travel times.
RECURSIVE PathCost(_, _, _)
PathCost(tc, p, mult10) ==
    IF Len(p) < 2 THEN 0
    ELSE EdgeCost(tc, p[1], p[2], mult10) + PathCost(tc, Tail(p), mult10)

FollowsEdges(E, p) == \A i \in 1..(Len(p) - 1) : <<p[i], p[i + 1]>> \in E

\* C3: for a reachable goal and a class of the speed table,
\* find_shortest_path returns a path from start to goal along existing edges
\* whose cost, at the levels the network holds at the call, is minimal among
\* all start-to-goal paths.
RouterReturnsCheapestPath ==
    (/\ call # NoCall
     /\ call.vehicle_type \in DOMAIN SPEED_MULTIPLIERS
     /\ SimplePaths(edges, <<call.start>>, call.goal) # {})
    => LET p == call.result.path
           m == SPEED_MULTIPLIERS[call.vehicle_type]
       IN  /\ call.result.status = "path"
           /\ Len(p) >= 1
           /\ p[1] = call.start
           /\ p[Len(p)] = call.goal
           /\ FollowsEdges(edges, p)
           /\ \A q \in SimplePaths(edges, <<call.start>>, call.goal) :
                 PathCost(traffic_condition, p, m) <= PathCost(traffic_condition, q, m)

\* A call made after the levels changed, whose cheapest path has an
\* intermediate node and is not the one the built-in levels would give.
RouterCalledAfterChange ==
    /\ call # NoCall
    /\ call.vehicle_type \in DOMAIN SPEED_MULTIPLIERS
    /\ call.result.status = "path"
    /\ Len(call.result.path) >= 3
    /\ traffic_condition # [e \in edges |-> BuiltInCondition[e]]
    /\ call.result # find_shortest_path(edges, [e \in edges |-> BuiltInCondition[e]],
                                         call.start, call.goal, call.vehicle_type)

\* ---------------------------------------------------------------- event loop
\* simpy: an event is queued as (time, priority, eid, event); a process start
\* (Initialize) and the until event of run() are URGENT, a timeout and the
\* end of a process are NORMAL.
URGENT == 0
NORMAL == 1

\* kind: "light", "updater", "spawner", "vehicle" (the process to resume),
\* "ended" (a process that returned) or "until"; id: the light's city index,
\* the vehicle's index in vehicles, or 0.
Event(time, prio, id, kind, who) ==
    [time |-> time, prio |-> prio, eid |-> id, kind |-> kind, who |-> who]

\* heapq order on the queue entries: time, then priority, then eid.
EventLess(x, y) ==
    \/ x.time < y.time
    \/ x.time = y.time /\ x.prio < y.prio
    \/ x.time = y.time /\ x.prio = y.prio /\ x.eid < y.eid

\* Environment.step: the event popped next.
NextEvent == CHOOSE x \in queue : \A y \in queue \ {x} : EventLess(x, y)

\* Environment.run's loop pops events until the until event or an exception.
Dispatching(kind) ==
    /\ run_state = "running"
    /\ queue # {}
    /\ NextEvent.kind = kind

Ticks(minutes) == minutes * TimeScale

CityIndex(c) == CHOOSE i \in 1..Len(AllCities) : AllCities[i] = c

\* ---------------------------------------------------------------- lights
\* TrafficLight.TRAFFIC_FACTOR, in tenths.
LightTrafficFactor ==
    [c \in TrafficCondition |->
        CASE c = LIGHT -> 2
          [] c = MODERATE -> 4
          [] c = HEAVY -> 7
          [] c = CONGESTED -> 10]

\* setup_traffic_lights: junction_types[:3], the types drawn at random for a
\* location with at most two outgoing roads.
BasicJunctionTypes == {"highway_intersection", "city_intersection", "rural_intersection"}

\* optimize_green_time: junction_multipliers.get(junction_type, 1.0), in tenths.
JunctionMultiplier(junction_type) ==
    CASE junction_type = "highway_intersection" -> 7
      [] junction_type = "city_intersection" -> 10
      [] junction_type = "rural_intersection" -> 13
      [] junction_type = "smart_intersection" -> 15
      [] OTHER -> 10

\* A rule that makes every location with more than two outgoing roads smart.
JunctionTypesFor_smart_above_two(E, location) ==
    LET num_connections == Cardinality({ e \in E : e[1] = location })
    IN  IF num_connections > 2 THEN {"smart_intersection"}
        ELSE BasicJunctionTypes

\* setup_traffic_lights: the junction types a location may get on edge set E.
JunctionTypesFor(E, location) ==
    LET num_connections == Cardinality({ e \in E : e[1] = location })
    IN  IF num_connections > 4 THEN {"smart_intersection"}
        ELSE IF num_connections > 2 THEN {"city_intersection"}
        ELSE BasicJunctionTypes

\* TrafficLight.__init__ (called with cycle_time=90 by setup_traffic_lights).
TrafficLight(junction_type, cycle_time) ==
    [junction_type |-> junction_type, base_cycle_time |-> cycle_time, state |-> "RED",
     adaptive |-> (junction_type = "smart_intersection"), traffic_history |-> <<>>,
     pc |-> "start", green_time |-> 0]

RECURSIVE Repeat(_, _)
Repeat(x, n) == IF n <= 0 THEN <<>> ELSE <<x>> \o Repeat(x, n - 1)

\* TrafficLight.run: [t[1] for t in incoming_traffic] after the descending
\* sort: the factors of the roads into location, largest first, in tenths.
IncomingTraffic(E, tc, location) ==
    LET count(c) == Cardinality({ e \in E : e[2] = location /\ tc[e] = c })
    IN  Repeat(LightTrafficFactor[CONGESTED], count(CONGESTED))
          \o Repeat(LightTrafficFactor[HEAVY], count(HEAVY))
          \o Repeat(LightTrafficFactor[MODERATE], count(MODERATE))
          \o Repeat(LightTrafficFactor[LIGHT], count(LIGHT))

RECURSIVE SeqSum(_)
SeqSum(q) == IF Len(q) = 0 THEN 0 ELSE q[1] + SeqSum(Tail(q))

Max(a, b) == IF a > b THEN a ELSE b

\* The inputs (up to four incoming roads) on which the float expression
\* traffic_density * 100 * multiplier // 2 comes out one below the exact
\* quotient, because the float product falls just short of an even integer.
FloatFloorLoss ==
    { <<"city_intersection", <<7, 7, 7>> >>,
      <<"smart_intersection", <<4, 4, 2>> >>,
      <<"city_intersection", <<10, 4, 4, 2>> >>,
      <<"city_intersection", <<7, 7, 4, 2>> >>,
      <<"roundabout", <<7, 7, 7>> >>,
      <<"roundabout", <<10, 4, 4, 2>> >>,
      <<"roundabout", <<7, 7, 4, 2>> >> }

\* A green time without the lower limit.
optimize_green_time_without_minimum(junction_type, incoming) ==
    LET exact == (SeqSum(incoming) * JunctionMultiplier(junction_type))
                    \div (2 * Max(1, Len(incoming)))
        floored == IF <<junction_type, incoming>> \in FloatFloorLoss THEN exact - 1 ELSE exact
    IN  Min(floored, 60)

\* TrafficLight.run lines 38-39 with optimize_green_time: the green time, in
\* simulated minutes, for the incoming factors (tenths, largest first).
optimize_green_time(junction_type, incoming) ==
    LET exact == (SeqSum(incoming) * JunctionMultiplier(junction_type))
                    \div (2 * Max(1, Len(incoming)))
        floored == IF <<junction_type, incoming>> \in FloatFloorLoss THEN exact - 1 ELSE exact
    IN  Max(10, Min(floored, 60))

\* The entries (up to four incoming roads) whose float average times 5 falls
\* just short of a whole number, so that int() gives one below the exact value.
DiscretizeFloorLoss == { <<10, 10, 4>>, <<10, 7, 7>>, <<10, 2, 2, 2>> }

\* optimize_signals_dp: the discretized state of one history entry.
Discretize(traffic) ==
    LET exact == SeqSum(traffic) \div (2 * Max(1, Len(traffic)))
    IN  Min(IF traffic \in DiscretizeFloorLoss THEN exact - 1 ELSE exact, 4)

\* A prediction that takes the last of several equally frequent next states.
optimize_signals_dp_last_maximum(traffic_history) ==
    IF Len(traffic_history) < 2
    THEN 30
    ELSE LET n == Len(traffic_history)
             discretized == [i \in 1..n |-> Discretize(traffic_history[i])]
             curr_state == discretized[n]
             count(next) == Cardinality({ i \in 2..n : discretized[i - 1] = curr_state
                                                       /\ discretized[i] = next })
             predicted_state == CHOOSE p \in 0..4 :
                                   /\ \A q \in 0..4 : count(q) <= count(p)
                                   /\ \A q \in (p + 1)..4 : count(q) < count(p)
         IN  15 + (predicted_state * 45) \div 4

\* optimize_signals_dp: the green time predicted from the history.
optimize_signals_dp(traffic_history) ==
    IF Len(traffic_history) < 2
    THEN 30
    ELSE LET n == Len(traffic_history)
             discretized == [i \in 1..n |-> Discretize(traffic_history[i])]
             curr_state == discretized[n]
             count(next) == Cardinality({ i \in 2..n : discretized[i - 1] = curr_state
                                                       /\ discretized[i] = next })
             predicted_state == CHOOSE p \in 0..4 :
                                   /\ \A q \in 0..4 : count(q) <= count(p)
                                   /\ \A q \in 0..(p - 1) : count(q) < count(p)
         IN  15 + (predicted_state * 45) \div 4

\* A loop top that drops the newest entry of a full history (pop() for pop(0)).
LightTurnsGreen_dropping_newest(l, E, tc, location) ==
    LET incoming == IncomingTraffic(E, tc, location)
        appended == Append(l.traffic_history, incoming)
        history == IF Len(appended) > 100 THEN SubSeq(appended, 1, 100) ELSE appended
        green_time == IF l.adaptive /\ Len(history) > 10
                      THEN optimize_signals_dp(history)
                      ELSE optimize_green_time(l.junction_type, incoming)
    IN  [l EXCEPT !.traffic_history = history, !.state = "GREEN",
                  !.green_time = green_time, !.pc = "green"]

\* A loop top that leaves the displayed state as it was.
LightTurnsGreen_staying_red(l, E, tc, location) ==
    LET incoming == IncomingTraffic(E, tc, location)
        appended == Append(l.traffic_history, incoming)
        history == IF Len(appended) > 100 THEN Tail(appended) ELSE appended
        green_time == IF l.adaptive /\ Len(history) > 10
                      THEN optimize_signals_dp(history)
                      ELSE optimize_green_time(l.junction_type, incoming)
    IN  [l EXCEPT !.traffic_history = history,
                  !.green_time = green_time, !.pc = "green"]

\* TrafficLight.run, from the top of the loop to the yield after GREEN: the
\* history append (at most 100 entries kept) and the green time.
LightTurnsGreen(l, E, tc, location) ==
    LET incoming == IncomingTraffic(E, tc, location)
        appended == Append(l.traffic_history, incoming)
        history == IF Len(appended) > 100 THEN Tail(appended) ELSE appended
        green_time == IF l.adaptive /\ Len(history) > 10
                      THEN optimize_signals_dp(history)
                      ELSE optimize_green_time(l.junction_type, incoming)
    IN  [l EXCEPT !.traffic_history = history, !.state = "GREEN",
                  !.green_time = green_time, !.pc = "green"]

\* A red time that forgets the yellow time.
RedTime_without_yellow(l) == l.base_cycle_time - l.green_time

\* red_time = base_cycle_time - green_time - 5.
RedTime(l) == l.base_cycle_time - l.green_time - 5

\* TrafficLight.run resumed by the event e: one segment of the generator, up
\* to its next yield.  A negative red_time makes env.timeout raise ValueError.
LightStep ==
    /\ Dispatching("light")
    /\ \E e \in {NextEvent} : \E location \in {AllCities[e.who]} :
       \E l2 \in { CASE lights[location].pc \in {"start", "red"} ->
                        LightTurnsGreen(lights[location], edges, traffic_condition, location)
                   [] lights[location].pc = "green" ->
                        [lights[location] EXCEPT !.state = "YELLOW", !.pc = "yellow"]
                   [] lights[location].pc = "yellow" ->
                        [lights[location] EXCEPT !.state = "RED", !.pc = "red"] } :
       \E delay \in { CASE l2.pc = "green" -> l2.green_time
                        [] l2.pc = "yellow" -> 5
                        [] l2.pc = "red" -> RedTime(l2) } :
           /\ now' = e.time
           /\ lights' = [lights EXCEPT ![location] = l2]
           /\ IF delay < 0
              THEN /\ run_state' = "raised"
                   /\ queue' = queue \ {e}
                   /\ eid' = eid
              ELSE /\ run_state' = run_state
                   /\ queue' = (queue \ {e}) \cup
                                 {Event(e.time + Ticks(delay), NORMAL, eid, "light", e.who)}
                   /\ eid' = eid + 1
    /\ UNCHANGED <<ledgerVars, netVars, call, vehicles, last_add, simulation_time>>

\* ---------------------------------------------------------------- updater
\* update_traffic_conditions: k = int(0.2 * len(edges)).
SampleSize(E) == (2 * Cardinality(E)) \div 10

\* random.uniform(-0.3, 0.3) as drawn by the model, in hundredths.
UniformDraws == {-25, 0, 25}

\* random.random() as drawn by the model for the updater, in hundredths.
UpdaterUnit == {0, 99}

\* A loop that updates every sampled edge twice, as a sample drawn with
\* replacement could.
RECURSIVE UpdateSampled_twice(_, _, _, _)
UpdateSampled_twice(tc, S, f, r) ==
    IF S = {} THEN tc
    ELSE LET x == CHOOSE y \in S : TRUE
         IN  UpdateSampled_twice(
                 update_road_traffic(update_road_traffic(tc, x[1], x[2], f[x], r[x]),
                                     x[1], x[2], f[x], r[x]),
                 S \ {x}, f, r)

\* The for loop of update_traffic_conditions over the sampled edges S, with
\* the draws f (change_factor) and r (random.random()) of each.
RECURSIVE UpdateSampled(_, _, _, _)
UpdateSampled(tc, S, f, r) ==
    IF S = {} THEN tc
    ELSE LET x == CHOOSE y \in S : TRUE
         IN  UpdateSampled(update_road_traffic(tc, x[1], x[2], f[x], r[x]), S \ {x}, f, r)

\* update_traffic_conditions resumed after its timeout(30): one tick, then
\* the next timeout.
UpdaterStep ==
    /\ Dispatching("updater")
    /\ LET e == NextEvent
       IN  /\ now' = e.time
           /\ \E S \in SUBSET edges :
                 /\ Cardinality(S) = SampleSize(edges)
                 /\ \E f \in [S -> UniformDraws] : \E r \in [S -> UpdaterUnit] :
                     \E tc \in {UpdateSampled(traffic_condition, S, f, r)} :
                       /\ e.time > Ticks(30 * MaxUpdates) => \A x \in S : f[x] = 0
                       /\ Drift(tc) <= MaxDrift
                       /\ traffic_condition' = tc
           /\ queue' = (queue \ {e}) \cup
                         {Event(e.time + Ticks(30), NORMAL, eid, "updater", 0)}
           /\ eid' = eid + 1
    /\ UNCHANGED <<ledgerVars, edges, call, lights, vehicles, run_state, last_add, simulation_time>>

\* update_traffic_conditions started: it runs to its first timeout(30).
UpdaterStart ==
    /\ Dispatching("updater_start")
    /\ LET e == NextEvent
       IN  /\ now' = e.time
           /\ queue' = (queue \ {e}) \cup
                         {Event(e.time + Ticks(30), NORMAL, eid, "updater", 0)}
           /\ eid' = eid + 1
    /\ UNCHANGED <<ledgerVars, netVars, call, lights, vehicles, run_state, last_add, simulation_time>>

\* A run that pops the until event and goes on dispatching.
HorizonReached_without_stopping ==
    /\ Dispatching("until")
    /\ now' = NextEvent.time
    /\ queue' = queue \ {NextEvent}
    /\ UNCHANGED <<ledgerVars, netVars, call, eid, lights, vehicles, run_state, last_add, simulation_time>>

\* Environment.run(until): the until event is reached; the loop stops.
HorizonReached ==
    /\ Dispatching("until")
    /\ now' = NextEvent.time
    /\ queue' = queue \ {NextEvent}
    /\ run_state' = "stopped"
    /\ UNCHANGED <<ledgerVars, netVars, call, eid, lights, vehicles, last_add, simulation_time>>

\* A process that returned: its event is popped and has no callback.
ProcessEnded ==
    /\ Dispatching("ended")
    /\ now' = NextEvent.time
    /\ queue' = queue \ {NextEvent}
    /\ UNCHANGED <<ledgerVars, netVars, call, eid, lights, vehicles, run_state, last_add, simulation_time>>

\* ---------------------------------------------------------------- vehicles
\* The int object vehicle_type.value of an enum member, as a dict key: an int
\* equals no enum member.
ValueOf(member) == [class |-> "int", name |-> "int", value |-> member.value]

\* Vehicle.__init__ lines 27-39, given the speed multiplier (tenths); pc, i
\* and pending are the frame of the drive() generator the object runs.
VehicleFields(vehicle_id, vehicle_type, start, destination, speed_multiplier) ==
    [vehicle_id |-> vehicle_id, vehicle_type |-> vehicle_type, start |-> start,
     destination |-> destination, speed_multiplier |-> speed_multiplier,
     route |-> <<>>, current_node |-> start, next_node |-> "None",
     travel_data |-> <<>>, total_travel_time |-> 0,
     pc |-> "start", i |-> 0, pending |-> 0]

\* Vehicle.__init__: the lookup SPEED_MULTIPLIERS[vehicle_type.value] raises
\* KeyError when the key is absent.
NewVehicle(vehicle_id, vehicle_type, start, destination) ==
    IF ValueOf(vehicle_type) \in DOMAIN SPEED_MULTIPLIERS
    THEN [raised |-> "none",
          vehicle |-> VehicleFields(vehicle_id, vehicle_type, start, destination,
                                    SPEED_MULTIPLIERS[ValueOf(vehicle_type)])]
    ELSE [raised |-> "KeyError"]

\* route_replanning_threshold, in tenths.
RoutePlanningThreshold == 7

ConditionName(c) ==
    CASE c = LIGHT -> "LIGHT" [] c = MODERATE -> "MODERATE"
      [] c = HEAVY -> "HEAVY" [] c = CONGESTED -> "CONGESTED"

\* list.index: the first position of x in q.
IndexOf(q, x) == CHOOSE i \in 1..Len(q) : q[i] = x /\ \A j \in 1..(i - 1) : q[j] # x

\* The sum of Vehicle.TRAFFIC_FACTOR over the edges of a route, in tenths.
RECURSIVE CongestionLevel(_, _)
CongestionLevel(tc, remaining_route) ==
    IF Len(remaining_route) < 2 THEN 0
    ELSE TRAFFIC_FACTOR[tc[<<remaining_route[1], remaining_route[2]>>]]
           + CongestionLevel(tc, Tail(remaining_route))

\* A splice that keeps the current node in the prefix as well.
Spliced_with_current_node_twice(v, current_idx, remaining_route, new_route) ==
    IF new_route.status = "KeyError"
    THEN [raised |-> "KeyError", rerouted |-> FALSE, route |-> v.route]
    ELSE IF /\ new_route.status = "path"
            /\ Len(new_route.path) > 1
            /\ new_route.path # remaining_route
    THEN [raised |-> "none", rerouted |-> TRUE,
          route |-> SubSeq(v.route, 1, current_idx) \o new_route.path]
    ELSE [raised |-> "none", rerouted |-> FALSE, route |-> v.route]

\* consider_rerouting lines 62-74: the outcome, given the path new_route that
\* find_shortest_path returned for the rest of the trip.
Spliced(v, current_idx, remaining_route, new_route) ==
    IF new_route.status = "KeyError"
    THEN [raised |-> "KeyError", rerouted |-> FALSE, route |-> v.route]
    ELSE IF /\ new_route.status = "path"
            /\ Len(new_route.path) > 1
            /\ new_route.path # remaining_route
    THEN [raised |-> "none", rerouted |-> TRUE,
          route |-> SubSeq(v.route, 1, current_idx - 1) \o new_route.path]
    ELSE [raised |-> "none", rerouted |-> FALSE, route |-> v.route]

\* A reroute check that lets the penultimate node of the route through.
consider_rerouting_at_penultimate_node(v, E, tc, current_node) ==
    IF current_node # v.destination
    THEN LET current_idx == IndexOf(v.route, current_node)
             remaining_route == SubSeq(v.route, current_idx, Len(v.route))
             hops == Len(remaining_route) - 1
             below == IF hops > 0
                      THEN CongestionLevel(tc, remaining_route) < RoutePlanningThreshold * hops
                      ELSE TRUE
         IN  IF below
             THEN Spliced(v, current_idx, remaining_route,
                          find_shortest_path(E, tc, current_node, v.destination, v.vehicle_type))
             ELSE [raised |-> "none", rerouted |-> FALSE, route |-> v.route]
    ELSE [raised |-> "none", rerouted |-> FALSE, route |-> v.route]

\* A reroute check that asks the router whatever the congestion on the rest
\* of the route.
consider_rerouting_without_threshold(v, E, tc, current_node) ==
    IF current_node # v.destination /\ current_node # v.route[Len(v.route) - 1]
    THEN LET current_idx == IndexOf(v.route, current_node)
             remaining_route == SubSeq(v.route, current_idx, Len(v.route))
         IN  Spliced(v, current_idx, remaining_route,
                     find_shortest_path(E, tc, current_node, v.destination, v.vehicle_type))
    ELSE [raised |-> "none", rerouted |-> FALSE, route |-> v.route]

\* Vehicle.consider_rerouting: whether it returns True, and self.route after.
consider_rerouting(v, E, tc, current_node) ==
    IF current_node # v.destination /\ current_node # v.route[Len(v.route) - 1]
    THEN LET current_idx == IndexOf(v.route, current_node)
             remaining_route == SubSeq(v.route, current_idx, Len(v.route))
             hops == Len(remaining_route) - 1
             \* average_congestion < threshold, both sides times 10 * hops
             below == IF hops > 0
                      THEN CongestionLevel(tc, remaining_route) < RoutePlanningThreshold * hops
                      ELSE TRUE
         IN  IF below
             THEN Spliced(v, current_idx, remaining_route,
                          find_shortest_path(E, tc, current_node, v.destination, v.vehicle_type))
             ELSE [raised |-> "none", rerouted |-> FALSE, route |-> v.route]
    ELSE [raised |-> "none", rerouted |-> FALSE, route |-> v.route]

\* What one resumption of drive() does: the vehicle and the levels after it,
\* and how the segment ends: "yield" (a timeout of wait ticks), "process"
\* (return self.env.process(self.drive())), "return", "recorded" (record_trip
\* then return) or the exception raised.
Effect(v, tc, ending, wait) == [v |-> v, tc |-> tc, ending |-> ending, wait |-> wait]

\* A departure that logs the level it finds after its entry nudge, as if the
\* road had changed between the read and the log.
Depart_logging_level_after_nudge(v, tc, d) ==
    LET edge_data == EdgeData(v.current_node, v.next_node)
        cond == tc[<<v.current_node, v.next_node>>]
        actual_travel_time == TravelTicks(v.current_node, v.next_node, v.speed_multiplier,
                                          TRAFFIC_FACTOR[cond])
        nudged == update_road_traffic(tc, v.current_node, v.next_node, 10, d.r_entry)
        segment == [from |-> v.current_node, to |-> v.next_node,
                    distance |-> edge_data.distance, road_type |-> edge_data.road_type,
                    traffic |-> ConditionName(nudged[<<v.current_node, v.next_node>>]),
                    travel_time |-> actual_travel_time]
    IN  Effect([v EXCEPT !.travel_data = Append(@, segment), !.pc = "travel",
                         !.pending = actual_travel_time],
               nudged, "yield", actual_travel_time)

\* A departure whose entry nudge goes to the opposite road.
Depart_nudging_opposite_road(v, tc, d) ==
    LET edge_data == EdgeData(v.current_node, v.next_node)
        cond == tc[<<v.current_node, v.next_node>>]
        actual_travel_time == TravelTicks(v.current_node, v.next_node, v.speed_multiplier,
                                          TRAFFIC_FACTOR[cond])
        segment == [from |-> v.current_node, to |-> v.next_node,
                    distance |-> edge_data.distance, road_type |-> edge_data.road_type,
                    traffic |-> ConditionName(cond), travel_time |-> actual_travel_time]
    IN  Effect([v EXCEPT !.travel_data = Append(@, segment), !.pc = "travel",
                         !.pending = actual_travel_time],
               IF <<v.next_node, v.current_node>> \in DOMAIN tc
               THEN update_road_traffic(tc, v.next_node, v.current_node, 10, d.r_entry)
               ELSE tc,
               "yield", actual_travel_time)

\* drive lines 105-129: the segment is logged, the entry nudge is applied and
\* the vehicle yields for the travel time.
Depart(v, tc, d) ==
    LET edge_data == EdgeData(v.current_node, v.next_node)
        cond == tc[<<v.current_node, v.next_node>>]
        actual_travel_time == TravelTicks(v.current_node, v.next_node, v.speed_multiplier,
                                          TRAFFIC_FACTOR[cond])
        segment == [from |-> v.current_node, to |-> v.next_node,
                    distance |-> edge_data.distance, road_type |-> edge_data.road_type,
                    traffic |-> ConditionName(cond), travel_time |-> actual_travel_time]
    IN  Effect([v EXCEPT !.travel_data = Append(@, segment), !.pc = "travel",
                         !.pending = actual_travel_time],
               update_road_traffic(tc, v.current_node, v.next_node, 10, d.r_entry),
               "yield", actual_travel_time)

\* drive lines 97-103 and on: the red-light check, then the departure.
LightCheck(v, tc, L, d) ==
    IF v.current_node \in DOMAIN L /\ L[v.current_node].state = "RED"
    THEN Effect([v EXCEPT !.pc = "red_wait", !.pending = Ticks(d.delay)], tc,
                "yield", Ticks(d.delay))
    ELSE Depart(v, tc, d)

\* A reroute whose restarted drive() begins its time count again.
Considered_resetting_travel_time(v, rr, tc, L, d) ==
    IF rr.raised # "none" THEN Effect(v, tc, rr.raised, 0)
    ELSE IF rr.rerouted
    THEN Effect([v EXCEPT !.route = rr.route, !.pc = "start", !.total_travel_time = 0],
                tc, "process", 0)
    ELSE LightCheck(v, tc, L, d)

\* drive lines 93-95: rr is what consider_rerouting did.
Considered(v, rr, tc, L, d) ==
    IF rr.raised # "none" THEN Effect(v, tc, rr.raised, 0)
    ELSE IF rr.rerouted
    THEN Effect([v EXCEPT !.route = rr.route, !.pc = "start"], tc, "process", 0)
    ELSE LightCheck(v, tc, L, d)

\* The loop variables of iteration i (from 0) set on the vehicle.
AtJunction(v, i) ==
    [v EXCEPT !.i = i, !.current_node = v.route[i + 1], !.next_node = v.route[i + 2]]

\* drive lines 85-103: iteration i (from 0) of the for loop, up to its yield.
\* d holds the random draws: coin (random.random() < 0.3), delay
\* (random.randint(10, 60)) and r_entry.
Iteration(v, i, E, tc, L, d) ==
    IF i > 0 /\ d.coin
    THEN Considered(AtJunction(v, i),
                    consider_rerouting(AtJunction(v, i), E, tc, v.route[i + 1]), tc, L, d)
    ELSE LightCheck(AtJunction(v, i), tc, L, d)

\* drive lines 78-83, planned being what find_shortest_path returned to
\* plan_route, whose print joins self.route and so raises TypeError on None.
Planned(v, planned, E, tc, L, d) ==
    IF planned.status = "KeyError" THEN Effect(v, tc, "KeyError", 0)
    ELSE IF planned.status = "None"
    THEN Effect([v EXCEPT !.route = planned.path], tc, "TypeError", 0)
    ELSE IF Len(planned.path) < 2
    THEN Effect([v EXCEPT !.route = planned.path, !.pc = "returned"], tc, "return", 0)
    ELSE Iteration([v EXCEPT !.route = planned.path], 0, E, tc, L, d)

\* drive from its start to its first yield.
StartDrive(v, E, tc, L, d) ==
    Planned(v, find_shortest_path(E, tc, v.start, v.destination, v.vehicle_type), E, tc, L, d)

\* A resumption after the red-light delay that leaves the delay uncounted.
AfterRedWait_without_counting_delay(v, tc, d) ==
    Depart(v, tc, d)

\* A resumption after the red-light delay that looks at the light again.
AfterRedWait_checking_light_again(v, tc, d) ==
    LightCheck([v EXCEPT !.total_travel_time = @ + v.pending], tc, lights, d)

\* drive line 103 and on: the red-light delay is over.
AfterRedWait(v, tc, d) ==
    Depart([v EXCEPT !.total_travel_time = @ + v.pending], tc, d)

\* An arrival that returns without the record_trip call.
AfterTravel_without_record(v0, E, tc0, L, d) ==
    LET v == [v0 EXCEPT !.total_travel_time = @ + v0.pending]
        tc == update_road_traffic(tc0, v0.current_node, v0.next_node, -5, d.r_exit)
    IN  IF v0.i + 1 < Len(v0.route) - 1
        THEN Iteration(v, v0.i + 1, E, tc, L, d)
        ELSE Effect([v EXCEPT !.pc = "done"], tc, "return", 0)

\* drive lines 130-139: the travel timeout is over: the exit nudge, then the
\* next iteration, or record_trip after the last one.
AfterTravel(v0, E, tc0, L, d) ==
    LET v == [v0 EXCEPT !.total_travel_time = @ + v0.pending]
        tc == update_road_traffic(tc0, v0.current_node, v0.next_node, -5, d.r_exit)
    IN  IF v0.i + 1 < Len(v0.route) - 1
        THEN Iteration(v, v0.i + 1, E, tc, L, d)
        ELSE Effect([v EXCEPT !.pc = "done"], tc, "recorded", 0)

\* random.randint(10, 60) as drawn by the model, in simulated minutes.
DelayDraws == {10, 60}

\* random.random() as drawn by the model for the two nudges, in hundredths.
NudgeUnit == {0, 99}

Draws ==
    [coin : BOOLEAN, delay : DelayDraws, r_entry : NudgeUnit, r_exit : NudgeUnit]

\* One resumption of the drive() generator of vehicle k.
Resume(k, d) ==
    LET v == vehicles[k]
    IN  CASE v.pc = "start" -> StartDrive(v, edges, traffic_condition, lights, d)
          [] v.pc = "red_wait" -> AfterRedWait(v, traffic_condition, d)
          [] v.pc = "travel" -> AfterTravel(v, edges, traffic_condition, lights, d)

\* A vehicle's drive() resumed by the event e.  A "yield" schedules the
\* timeout; "process" schedules the start of the new drive() and the end of
\* this one; a return schedules the end; an exception leaves env.run().
VehicleStep ==
    /\ Dispatching("vehicle")
    /\ LET e == NextEvent
           k == e.who
       IN  \E d \in Draws : \E eff \in {Resume(k, d)} : \E v \in {eff.v} :
                 /\ Drift(eff.tc) <= MaxDrift
                 /\ now' = e.time
                 /\ traffic_condition' = eff.tc
                 /\ vehicles' = [vehicles EXCEPT ![k] = v]
                 /\ trip_records' =
                       IF eff.ending = "recorded"
                       THEN record_trip(trip_records, v.vehicle_id, v.vehicle_type, v.start,
                                        v.destination, v.route, v.total_travel_time,
                                        v.travel_data, e.time)
                       ELSE trip_records
                 /\ run_state' = IF eff.ending \in {"KeyError", "TypeError"}
                                 THEN "raised " \o eff.ending ELSE run_state
                 /\ queue' = (queue \ {e}) \cup
                       (CASE eff.ending = "yield" ->
                               {Event(e.time + eff.wait, NORMAL, eid, "vehicle", k)}
                          [] eff.ending = "process" ->
                               {Event(e.time, URGENT, eid, "vehicle", k),
                                Event(e.time, NORMAL, eid + 1, "ended", k)}
                          [] eff.ending \in {"return", "recorded"} ->
                               {Event(e.time, NORMAL, eid, "ended", k)}
                          [] OTHER -> {})
                 /\ eid' = CASE eff.ending = "process" -> eid + 2
                              [] eff.ending \in {"KeyError", "TypeError"} -> eid
                              [] OTHER -> eid + 1
    /\ UNCHANGED <<analysis, edges, call, lights, last_add, simulation_time>>

\* -------------------------------------------------------- drive specification
\* A TrafficManager with vehicles driving on it: the environment, the
\* signal controllers and the congestion updater as TrafficManager.__init__
\* creates them, then vehicle objects as Vehicle.__init__ lines 27-39 leave
\* them, each with its drive() process started, then env.run(until).  The
\* vehicles' classes are keys of Vehicle.SPEED_MULTIPLIERS, for which the
\* speed-multiplier lookups are defined.  The edge set is an input: the
\* built-in roads, or those without the roads into the last city.
WithoutRoadsInto(c) == { e \in BuiltInEdges : e[2] # c }

\* The trips a run may start with: (vehicle_id, class, start, destination).
TripInputs ==
    { <<"Moto1", "MOTORCYCLE", "Nagpur", "Pune">>,
      <<"Car1", "CAR", "Mumbai", "Pune">>,
      <<"Truck1", "TRUCK", "Mumbai", "Nagpur">> }

\* The sequences of n distinct trips.
RECURSIVE TripLists(_)
TripLists(n) ==
    IF n = 0 THEN {<<>>}
    ELSE { Append(q, t) : q \in TripLists(n - 1), t \in TripInputs }

Distinct(q) == \A i, j \in 1..Len(q) : i # j => q[i] # q[j]

\* The inputs of a run: the trips, and the built-in roads or those without the
\* roads into the first trip's destination.
DriveInputs ==
    { [trips |-> q, edges |-> E] :
        q \in { x \in TripLists(Min(MaxVehicles, Cardinality(TripInputs))) : Distinct(x) },
        E \in { BuiltInEdges } \cup { WithoutRoadsInto(t[4]) : t \in TripInputs } }

\* random.choice(junction_types[:3]) as drawn by the model in a run.
JunctionDraws == {"rural_intersection"}

\* setup_traffic_lights on edge set E: one light per location.
LightInputs(E) ==
    { L \in [Cities -> { TrafficLight(j, 90) : j \in BasicJunctionTypes \cup {"smart_intersection"} }] :
        \A c \in Cities :
            /\ L[c].junction_type \in JunctionTypesFor(E, c)
            /\ JunctionTypesFor(E, c) = BasicJunctionTypes => L[c].junction_type \in JunctionDraws }

\* Lights whose processes start like timeouts, after the urgent starts.
ManagerEvents_lights_not_urgent ==
    { Event(0, NORMAL, CityIndex(c) - 1, "light", CityIndex(c)) : c \in Cities }
      \cup { Event(0, URGENT, Cardinality(Cities), "updater_start", 0) }

\* TrafficManager.__init__: the processes of the lights (in node order) and of
\* the updater, with the eids 0..n.
ManagerEvents ==
    { Event(0, URGENT, CityIndex(c) - 1, "light", CityIndex(c)) : c \in Cities }
      \cup { Event(0, URGENT, Cardinality(Cities), "updater_start", 0) }

InitDrive ==
    /\ trip_records = <<>>
    /\ analysis = Unset
    /\ \E in \in DriveInputs :
          LET trips == in.trips
              n == Len(trips)
          IN  /\ in.edges # BuiltInEdges => in.edges = WithoutRoadsInto(trips[1][4])
              /\ edges = in.edges
              /\ vehicles = [k \in 1..n |->
                    VehicleFields(trips[k][1], Member(VehicleVehicleType, trips[k][2]),
                                  trips[k][3], trips[k][4],
                                  SPEED_MULTIPLIERS[Member(VehicleVehicleType, trips[k][2])])]
              /\ queue = ManagerEvents
                           \cup { Event(0, URGENT, Cardinality(Cities) + k, "vehicle", k) :
                                    k \in 1..n }
                           \cup { Event(Ticks(SimulationTime), URGENT,
                                        Cardinality(Cities) + n + 1, "until", 0) }
              /\ eid = Cardinality(Cities) + n + 2
    /\ traffic_condition = [e \in edges |-> BuiltInCondition[e]]
    /\ call = NoCall
    /\ now = 0
    /\ lights \in LightInputs(edges)
    /\ run_state = "running"
    /\ last_add = Unset
    /\ simulation_time = SimulationTime

NextDrive ==
    \/ LightStep
    \/ UpdaterStart
    \/ UpdaterStep
    \/ VehicleStep
    \/ ProcessEnded
    \/ HorizonReached

SpecDrive == InitDrive /\ [][NextDrive]_vars

\* The segments a vehicle has logged so far, as (from, to) pairs.
Logged(v) == [j \in 1..Len(v.travel_data) |-> <<v.travel_data[j].from, v.travel_data[j].to>>]

\* The vehicle was rerouted at least once: it logged more segments than the
\* hops of a single pass over its route, or its drive() was restarted.
Restarted(v) == v.pc = "start" /\ v.i > 0

\* C4: a rerouted vehicle continues from the node u where it was rerouted:
\* every segment it logs starts where the previous one ended, so the segment
\* after a reroute starts at u and not at the origin, and no segment is
\* logged a second time.
ReroutedVehicleContinuesFromCurrentNode ==
    \A k \in DOMAIN vehicles :
        LET log == Logged(vehicles[k])
        IN  /\ \A j \in 1..(Len(log) - 1) : log[j + 1][1] = log[j][2]
            /\ \A a, b \in 1..Len(log) : a # b => log[a] # log[b]

\* C5: a step of drive() that changes the route of a vehicle on its way (a
\* reroute applied at current node u, found at index i of the old route)
\* keeps the entries before i and has u exactly once, at index i; the
\* route changes in no other way on the way.
RerouteKeepsVisitedPrefix ==
    [][\A k \in DOMAIN vehicles :
          (vehicles[k].pc = "travel" /\ vehicles'[k].route # vehicles[k].route) =>
             LET old == vehicles[k].route
                 new == vehicles'[k].route
                 u == vehicles'[k].current_node
                 i == IndexOf(old, u)
             IN  /\ i = vehicles'[k].i + 1
                 /\ Len(new) >= i
                 /\ SubSeq(new, 1, i - 1) = SubSeq(old, 1, i - 1)
                 /\ new[i] = u
                 /\ Cardinality({ j \in 1..Len(new) : new[j] = u }) = 1]_vars

\* A reroute was applied at a junction after the first.
RerouteApplied ==
    \E k \in DOMAIN vehicles :
        /\ Restarted(vehicles[k])
        /\ vehicles[k].route[vehicles[k].i + 1] = vehicles[k].current_node
        /\ vehicles[k].route[Len(vehicles[k].route)] = vehicles[k].destination

\* C6: in every trip record the segment log has len(route) - 1 entries and
\* its k-th entry goes from route[k] to route[k+1].
RecordedRouteIsRealizedRoute ==
    \A r \in 1..Len(trip_records) :
        LET rec == trip_records[r]
        IN  /\ Len(rec.travel_data) = Len(rec.route) - 1
            /\ \A j \in 1..Len(rec.travel_data) :
                  /\ j + 1 <= Len(rec.route)
                  /\ rec.travel_data[j].from = rec.route[j]
                  /\ rec.travel_data[j].to = rec.route[j + 1]

\* The records the ledger holds for vehicle k.
RecordsOf(k) == { r \in 1..Len(trip_records) : trip_records[r].vehicle_id = vehicles[k].vehicle_id }

\* C7: a vehicle has exactly one trip record once it has reached its
\* destination, stamped with a time at or before now, and none before that:
\* none while it travels or waits, none when it has no route, none when the
\* horizon stops it on the way; it never has more than one.
OneRecordAtArrival ==
    \A k \in DOMAIN vehicles :
        /\ Cardinality(RecordsOf(k)) = IF vehicles[k].pc = "done" THEN 1 ELSE 0
        /\ vehicles[k].pc = "done" => vehicles[k].next_node = vehicles[k].destination
        /\ \A r \in RecordsOf(k) :
              /\ trip_records[r].timestamp <= now
              /\ trip_records[r].travel_time = vehicles[k].total_travel_time
              /\ trip_records[r].travel_time <= trip_records[r].timestamp

\* A vehicle that was rerouted on its way has arrived.
ReroutedVehicleArrived ==
    \E k \in DOMAIN vehicles :
        /\ vehicles[k].pc = "done"
        /\ Len(vehicles[k].travel_data) > Len(vehicles[k].route) - 1
        /\ Len(trip_records) = 1

\* C8: a vehicle for which the router returns None stops by itself: the run
\* raises nothing and goes on dispatching.
NoRouteRaisesNothing ==
    \A k \in DOMAIN vehicles :
        find_shortest_path(edges, traffic_condition, vehicles[k].start,
                           vehicles[k].destination, vehicles[k].vehicle_type) = NonePath
           => run_state \in {"running", "stopped"}

\* --------------------------------------------------- simulation specification
\* TrafficSimulation: the manager's processes and the spawner as __init__
\* creates them, add_vehicle called by a script before run's env.run(until),
\* and by the spawner during it.

\* What an add_vehicle call leaves: its outcome ("True", "False" or the
\* exception it raised), self.vehicles, the event queue and the event counter.
Added(outcome, vs, q, id) == [outcome |-> outcome, vehicles |-> vs, queue |-> q, eid |-> id]

\* add_vehicle lines 19-22, nv being what Vehicle(...) did.
Constructed(nv, vs, q, id, t) ==
    IF nv.raised # "none"
    THEN Added(nv.raised, vs, q, id)
    ELSE Added("True", Append(vs, nv.vehicle),
               q \cup {Event(t, URGENT, id, "vehicle", Len(vs) + 1)}, id + 1)

\* A check of the start alone.
EndpointsExist_start_only(start, destination) == start \in Cities

\* add_vehicle line 18: both endpoints are nodes of the road network.
EndpointsExist(start, destination) == start \in Cities /\ destination \in Cities

\* TrafficSimulation.add_vehicle called at time t.
add_vehicle(vs, q, id, t, vehicle_id, vehicle_type, start, destination) ==
    IF EndpointsExist(start, destination)
    THEN Constructed(NewVehicle(vehicle_id, vehicle_type, start, destination), vs, q, id, t)
    ELSE Added("False", vs, q, id)

\* The add_vehicle call last_add remembers.
AddCall(vehicle_id, vehicle_type, start, destination, outcome) ==
    [vehicle_id |-> vehicle_id, vehicle_type |-> vehicle_type, start |-> start,
     destination |-> destination, outcome |-> outcome]

\* Names that are no location of the network.
InvalidLocations == {"Goa"}

\* The class values a script passes: the members of utils.enums.VehicleType
\* that traffic_simulation.py imports, or those of models.vehicle.VehicleType.
ScriptClasses == EnumsVehicleType \cup VehicleVehicleType

\* simulation_time as the constructor is given it.
SimulationTimes == {ShortSimulationTime, SimulationTime}

InitAdd ==
    /\ trip_records = <<>>
    /\ analysis = Unset
    /\ edges = BuiltInEdges
    /\ traffic_condition = BuiltInCondition
    /\ call = NoCall
    /\ now = 0
    /\ lights \in LightInputs(edges)
    /\ vehicles = <<>>
    /\ queue = ManagerEvents
                 \cup {Event(0, URGENT, Cardinality(Cities) + 1, "spawner_start", 0)}
    /\ eid = Cardinality(Cities) + 2
    /\ run_state = "setup"
    /\ last_add = Unset
    /\ simulation_time \in SimulationTimes

\* A script calls add_vehicle before the run; an exception ends the script.
ScriptAddVehicle ==
    /\ run_state = "setup"
    /\ \E vehicle_type \in ScriptClasses :
       \E start \in Cities \cup InvalidLocations :
       \E destination \in Cities \cup InvalidLocations :
       \E res \in {add_vehicle(vehicles, queue, eid, now, "Truck1", vehicle_type,
                                start, destination)} :
          /\ last_add' = AddCall("Truck1", vehicle_type, start, destination, res.outcome)
          /\ vehicles' = res.vehicles
          /\ queue' = res.queue
          /\ eid' = res.eid
          /\ run_state' = IF res.outcome \in {"True", "False"}
                          THEN run_state ELSE "raised " \o res.outcome
    /\ UNCHANGED <<ledgerVars, netVars, call, now, lights, simulation_time>>

\* run line 62: env.run(until=self.simulation_time) schedules the until event.
StartRun ==
    /\ run_state = "setup"
    /\ queue' = queue \cup {Event(Ticks(simulation_time), URGENT, eid, "until", 0)}
    /\ eid' = eid + 1
    /\ run_state' = "running"
    /\ UNCHANGED <<ledgerVars, netVars, call, now, lights, vehicles, last_add, simulation_time>>

\* random.randint(10, 40) as drawn by the model, in simulated minutes.
SpawnDelays == {10, 40}

\* generate_random_vehicles started: it runs to its first timeout.
SpawnerStart ==
    /\ Dispatching("spawner_start")
    /\ \E e \in {NextEvent} : \E delay \in SpawnDelays :
          /\ now' = e.time
          /\ queue' = (queue \ {e}) \cup
                        {Event(e.time + Ticks(delay), NORMAL, eid, "spawner", 0)}
          /\ eid' = eid + 1
    /\ UNCHANGED <<ledgerVars, netVars, call, lights, vehicles, run_state, last_add, simulation_time>>

\* f"{vehicle_type.name[:3]}-{random.randint(1000, 9999)}", the number drawn
\* by the model being 1000.
SpawnId(vehicle_type) ==
    CASE vehicle_type.name = "TRUCK" -> "TRU-1000"
      [] vehicle_type.name = "CAR" -> "CAR-1000"
      [] vehicle_type.name = "BUS" -> "BUS-1000"
      [] vehicle_type.name = "MOTORCYCLE" -> "MOT-1000"

\* A test against the whole simulation time.
BeforeSpawnEnd_at_full_time(t, T) == t < Ticks(T)

\* self.env.now < self.simulation_time * 0.9, t being now in ticks.
BeforeSpawnEnd(t, T) == 10 * t < 9 * Ticks(T)

\* generate_random_vehicles resumed after its timeout: one add_vehicle call
\* if the time allows, then the next timeout.
SpawnerStep ==
    /\ Dispatching("spawner")
    /\ \E e \in {NextEvent} : \E delay \in SpawnDelays :
          /\ now' = e.time
          /\ IF BeforeSpawnEnd(e.time, simulation_time) /\ Cardinality(Cities) > 1
             THEN \E start \in Cities : \E destination \in Cities \ {start} :
                  \E vehicle_type \in EnumsVehicleType :
                  \E res \in {add_vehicle(vehicles, queue \ {e}, eid, e.time,
                                           SpawnId(vehicle_type), vehicle_type,
                                           start, destination)} :
                     /\ last_add' = AddCall(SpawnId(vehicle_type), vehicle_type, start,
                                            destination, res.outcome)
                     /\ vehicles' = res.vehicles
                     /\ IF res.outcome \in {"True", "False"}
                        THEN /\ queue' = res.queue \cup
                                  {Event(e.time + Ticks(delay), NORMAL, res.eid, "spawner", 0)}
                             /\ eid' = res.eid + 1
                             /\ run_state' = run_state
                        ELSE /\ queue' = res.queue
                             /\ eid' = res.eid
                             /\ run_state' = "raised " \o res.outcome
             ELSE /\ queue' = (queue \ {e}) \cup
                                {Event(e.time + Ticks(delay), NORMAL, eid, "spawner", 0)}
                  /\ eid' = eid + 1
                  /\ UNCHANGED <<vehicles, run_state, last_add>>
    /\ UNCHANGED <<ledgerVars, netVars, call, lights, simulation_time>>

\* No Vehicle object is ever constructed here (see AddVehicleSucceeds), so
\* no drive() process takes a step.
NextAdd ==
    \/ ScriptAddVehicle
    \/ StartRun
    \/ LightStep
    \/ UpdaterStart
    \/ UpdaterStep
    \/ SpawnerStart
    \/ SpawnerStep
    \/ HorizonReached

SpecAdd == InitAdd /\ [][NextAdd]_vars

\* C9: an add_vehicle call with endpoints of the network and one of the four
\* classes the simulation passes returns True with the vehicle added, its
\* speed multiplier being the table's 0.6, 1.0, 0.8 or 1.5.
AddVehicleSucceeds ==
    (/\ last_add # Unset
     /\ last_add.vehicle_type \in EnumsVehicleType
     /\ EndpointsExist(last_add.start, last_add.destination))
       => /\ last_add.outcome = "True"
          /\ \E k \in DOMAIN vehicles :
                /\ vehicles[k].vehicle_id = last_add.vehicle_id
                /\ vehicles[k].speed_multiplier =
                      (CASE last_add.vehicle_type.name = "TRUCK" -> 6
                         [] last_add.vehicle_type.name = "CAR" -> 10
                         [] last_add.vehicle_type.name = "BUS" -> 8
                         [] last_add.vehicle_type.name = "MOTORCYCLE" -> 15)

\* C10: an add_vehicle call with a start or a destination that is no
\* location of the network returns False and changes nothing: no vehicle, no
\* process (no event, no event id used), the ledger and the run as before.
InvalidEndpointIsRejected ==
    [][(/\ last_add' # last_add
        /\ last_add' # Unset
        /\ (last_add'.start \notin Cities \/ last_add'.destination \notin Cities))
          => /\ last_add'.outcome = "False"
             /\ vehicles' = vehicles
             /\ queue' = queue
             /\ eid' = eid
             /\ trip_records' = trip_records
             /\ run_state' = run_state]_vars

\* A rejected call, and the run going on after it.
RunGoesOnAfterRejectedAdd ==
    /\ last_add # Unset
    /\ last_add.outcome = "False"
    /\ last_add.destination \in InvalidLocations
    /\ run_state = "running"
    /\ now > 0

\* ------------------------------------------------------- light specification
\* A TrafficLight built directly on a TrafficManager's road network, with the
\* manager's updater running: TrafficLight(env, location, junction_type, tm,
\* cycle_time) or TrafficLight(env, location, junction_type, tm), then
\* env.run(until).  run() reads the road network only, so the manager's own
\* lights (cycle_time 90, never smart on this network) are left out of it.

\* The junction types a light is built with: the four known ones and one
\* that junction_multipliers does not hold.
JunctionTypes == BasicJunctionTypes \cup {"smart_intersection", "roundabout"}

\* cycle_time: the constructor's default, and what setup_traffic_lights passes.
CycleTimes == {60, 90}

\* Where the light stands.
LightLocations == {"Pune"}

\* The runs made: every junction type with every cycle time for the short
\* horizon, and a smart intersection with the default cycle time for the long.
LightRuns ==
    { [junction_type |-> j, cycle_time |-> ct, until |-> ShortLightRunTime] :
        j \in JunctionTypes, ct \in CycleTimes }
      \cup { [junction_type |-> "smart_intersection", cycle_time |-> 60,
               until |-> LightRunTime] }

InitLight ==
    /\ trip_records = <<>>
    /\ analysis = Unset
    /\ edges = BuiltInEdges
    /\ traffic_condition = BuiltInCondition
    /\ call = NoCall
    /\ now = 0
    /\ \E location \in LightLocations : \E run \in LightRuns :
          /\ lights = [c \in {location} |-> TrafficLight(run.junction_type, run.cycle_time)]
          /\ queue = { Event(0, URGENT, 0, "updater_start", 0),
                       Event(0, URGENT, 1, "light", CityIndex(location)),
                       Event(Ticks(run.until), URGENT, 2, "until", 0) }
          /\ simulation_time = run.until
    /\ eid = 3
    /\ vehicles = <<>>
    /\ run_state = "running"
    /\ last_add = Unset

NextLight ==
    \/ LightStep
    \/ UpdaterStart
    \/ UpdaterStep
    \/ HorizonReached

SpecLight == InitLight /\ [][NextLight]_vars

\* The timed wait a light is suspended at.
PendingWait(c) == { e \in queue : e.kind = "light" /\ e.who = CityIndex(c) }

\* C11: a light that has turned RED waits for base_cycle_time - green_time - 5
\* or, where that is negative, for 0: its wait is accepted (it is suspended at
\* a wait that ends no earlier than now) and nothing is raised.
RedWaitIsNeverNegative ==
    \A c \in DOMAIN lights :
        lights[c].pc = "red"
          => /\ run_state # "raised"
             /\ \E e \in PendingWait(c) :
                   /\ e.time >= now
                   /\ RedTime(lights[c]) < 0 => e.time = now

\* The state changes of the cycle.
CycleOrder == { <<"RED", "GREEN">>, <<"GREEN", "YELLOW">>, <<"YELLOW", "RED">> }

\* The duration of the state light l is in.
StateDuration(l) ==
    CASE l.state = "GREEN" -> l.green_time
      [] l.state = "YELLOW" -> 5
      [] l.state = "RED" -> RedTime(l)

\* C12: a light's state changes only from RED to GREEN, GREEN to YELLOW and
\* YELLOW to RED; while the run lasts the light is suspended at one timed
\* wait, which ends when the duration of its state is over, and at the end of
\* that wait the state changes.
LightCycleNeverStops ==
    /\ [](run_state = "running"
            => \A c \in DOMAIN lights : \E e \in PendingWait(c) : e.time >= now)
    /\ [][\A c \in DOMAIN lights :
            /\ lights'[c].state # lights[c].state
                  => /\ <<lights[c].state, lights'[c].state>> \in CycleOrder
                     /\ run_state' = "running"
                           => PendingWait(c)' =
                                { Event(now' + Ticks(StateDuration(lights'[c])), NORMAL,
                                        eid, "light", CityIndex(c)) }
            /\ (run_state = "running" /\ NextEvent \in PendingWait(c))
                  => /\ lights'[c].state # lights[c].state
                     /\ now' = NextEvent.time]_vars

\* A light that is GREEN for the second time or later, its wait pending.
LightIsGreenAgain ==
    \E c \in DOMAIN lights :
        /\ lights[c].state = "GREEN"
        /\ Len(lights[c].traffic_history) >= 2
        /\ run_state = "running"
        /\ PendingWait(c) # {}

\* ------------------------------------------------- green-time specification
\* One pass of run()'s loop top, for a light at any location, of any junction
\* type, with any levels on the roads into its location (or no road into it),
\* and either a new light or one whose history holds PastCycles entries of
\* earlier levels of those roads.

\* The level assignments that differ from the built-in one on the roads into
\* location only.
LevelsInto(E, location) ==
    { [e \in E |-> IF e[2] = location THEN f[e] ELSE BuiltInCondition[e]] :
        f \in [{ e \in E : e[2] = location } -> TrafficCondition] }

InitGreen ==
    /\ trip_records = <<>>
    /\ analysis = Unset
    /\ call = NoCall
    /\ now = 0
    /\ \E location \in Cities : \E junction_type \in JunctionTypes :
       \E E \in {BuiltInEdges, WithoutRoadsInto(location)} :
       \E tc \in LevelsInto(E, location) :
       \E past \in {<<>>} \cup { Repeat(IncomingTraffic(E, p, location), PastCycles) :
                                   p \in LevelsInto(E, location) } :
          /\ junction_type # "smart_intersection" => past = <<>>
          /\ edges = E
          /\ traffic_condition = tc
          /\ lights = [c \in {location} |->
                          [TrafficLight(junction_type, 90) EXCEPT !.traffic_history = past]]
          /\ queue = { Event(0, URGENT, 0, "light", CityIndex(location)),
                       Event(Ticks(GreenRunTime), URGENT, 1, "until", 0) }
    /\ eid = 2
    /\ vehicles = <<>>
    /\ run_state = "running"
    /\ last_add = Unset
    /\ simulation_time = GreenRunTime

NextGreen ==
    \/ LightStep
    \/ HorizonReached

SpecGreen == InitGreen /\ [][NextGreen]_vars

\* C13: the green time a light has computed lies in 10..60, whether
\* optimize_green_time gave it (for any junction type, an unknown one included,
\* and any density from 0, no incoming road, to 100, all of them CONGESTED) or
\* optimize_signals_dp predicted it from the light's history.
GreenTimeWithinBounds ==
    \A c \in DOMAIN lights :
        lights[c].pc # "start" => lights[c].green_time \in 10..60

\* A smart light that is GREEN for a time predicted from its history.
GreenTimePredictedFromHistory ==
    \E c \in DOMAIN lights :
        /\ lights[c].adaptive
        /\ Len(lights[c].traffic_history) > 10
        /\ lights[c].state = "GREEN"
        /\ lights[c].green_time = optimize_signals_dp(lights[c].traffic_history)

\* When the cycle light c is in ends: the end of its pending wait plus the
\* durations of the states of the cycle still to come.
CycleEnd(c) ==
    (CHOOSE e \in PendingWait(c) : TRUE).time
      + Ticks(CASE lights[c].pc = "green" -> 5 + RedTime(lights[c])
                [] lights[c].pc = "yellow" -> RedTime(lights[c])
                [] OTHER -> 0)

\* C14: the GREEN, YELLOW and RED durations of a cycle sum to
\* base_cycle_time: when a light turns GREEN its cycle is due to end
\* base_cycle_time later, that end stays where it is through YELLOW and RED,
\* and the next GREEN begins exactly then.
GreenOnsetsAreOneCycleApart ==
    [][\A c \in DOMAIN lights :
          (run_state' = "running" /\ lights'[c].pc # "start")
            => IF lights[c].pc # "green" /\ lights'[c].pc = "green"
               THEN /\ CycleEnd(c)' = now' + Ticks(lights[c].base_cycle_time)
                    /\ lights[c].pc = "red" => now' = CycleEnd(c)
                    /\ lights'[c].green_time + 5 + StateDuration([lights'[c] EXCEPT !.state = "RED"])
                          = lights[c].base_cycle_time
               ELSE CycleEnd(c)' = CycleEnd(c)]_vars

\* A light with the default cycle time at its third GREEN, two cycles after
\* the first.
ThirdGreenOnset ==
    \E c \in DOMAIN lights :
        /\ lights[c].base_cycle_time = 60
        /\ lights[c].state = "GREEN"
        /\ Len(lights[c].traffic_history) = 3
        /\ now = Ticks(2 * 60)

\* tc2 differs from the levels tc by at most one permitted step of road e
\* for the factor f.
OneLevelStep(tc, e, f, tc2) ==
    /\ DOMAIN tc2 = DOMAIN tc
    /\ \A x \in DOMAIN tc : x # e => tc2[x] = tc[x]
    /\ tc2[e] \in TrafficCondition
    /\ Abs(tc2[e] - tc[e]) <= 1
    /\ tc2[e] > tc[e] => f > 0 /\ tc[e] < CONGESTED
    /\ tc2[e] < tc[e] => f < 0 /\ tc[e] > LIGHT
    /\ (f = 0 \/ (f > 0 /\ tc[e] = CONGESTED) \/ (f < 0 /\ tc[e] = LIGHT)) => tc2[e] = tc[e]

\* ---------------------------------------------------- update specification
\* One call of update_road_traffic, for any road, with any of the factors
\* the program passes and any draw, on the built-in network with any levels
\* on the roads into one location; call holds the arguments of the call and
\* the level the road had.
InitUpdate ==
    /\ trip_records = <<>>
    /\ analysis = Unset
    /\ edges = BuiltInEdges
    /\ \E location \in Cities : traffic_condition \in LevelsInto(edges, location)
    /\ call = NoCall
    /\ IdleSim

UpdateCall ==
    /\ call = NoCall
    /\ \E e \in edges : \E f \in ChangeFactors : \E r \in RandomUnit :
          /\ traffic_condition' = update_road_traffic(traffic_condition, e[1], e[2], f, r)
          /\ call' = [source |-> e[1], target |-> e[2], change_factor |-> f,
                      before |-> traffic_condition[e]]
    /\ UNCHANGED <<ledgerVars, edges, simVars>>

NextUpdate == UpdateCall

SpecUpdate == InitUpdate /\ [][NextUpdate]_vars

\* C15: every road is at one of the four levels, and a call
\* update_road_traffic(s, t, f) leaves every other road alone and moves (s,t)
\* by at most one level: up only if f > 0 and it is below CONGESTED, down only
\* if f < 0 and it is above LIGHT, not at all if f = 0 or the move would cross
\* a boundary.
UpdateMovesOneLevelAtMost ==
    /\ [](traffic_condition \in [edges -> TrafficCondition])
    /\ [][call' # NoCall
            => OneLevelStep(traffic_condition, <<call'.source, call'.target>>,
                            call'.change_factor, traffic_condition')]_vars

\* A call with a negative factor has taken a road from CONGESTED to HEAVY.
UpdateLeftCongested ==
    /\ call # NoCall
    /\ call.change_factor < 0
    /\ call.before = CONGESTED
    /\ traffic_condition[<<call.source, call.target>>] = HEAVY

\* The roads whose level the step changes.
ChangedRoads == { e \in edges : traffic_condition'[e] # traffic_condition[e] }

Traversed(v) == <<v.current_node, v.next_node>>

\* C17: the road set never changes, and a road's level changes only in a
\* tick of the updater or in the step of a vehicle, and there only on the road
\* the vehicle has just travelled (one level down, the exit nudge) and on the
\* road it enters (one level up, the entry nudge); a step of a light changes
\* no level.
NetworkChangesOnlyByUpdaterAndNudges ==
    [][/\ edges' = edges
       /\ DOMAIN traffic_condition' = edges
       /\ ChangedRoads # {}
            => \/ Dispatching("updater")
               \/ /\ Dispatching("vehicle")
                  /\ \A e \in ChangedRoads :
                        \/ /\ vehicles[NextEvent.who].pc = "travel"
                           /\ e = Traversed(vehicles[NextEvent.who])
                           /\ traffic_condition'[e] = traffic_condition[e] - 1
                        \/ /\ vehicles'[NextEvent.who].pc = "travel"
                           /\ e = Traversed(vehicles'[NextEvent.who])
                           /\ traffic_condition'[e] = traffic_condition[e] + 1]_vars

\* The road from the node at position i of vehicle v's route to the next.
RoadAt(v, i) == <<v.route[i], v.route[i + 1]>>

\* A vehicle has arrived over two roads or more: the first road is one level
\* up (its entry nudge), the last one level down (its exit nudge), every
\* other road is at its built-in level.
NudgedOnEntryAndExit ==
    \E k \in DOMAIN vehicles :
        /\ vehicles[k].pc = "done"
        /\ Len(vehicles[k].route) >= 3
        /\ Drift(traffic_condition) = 2
        /\ traffic_condition[RoadAt(vehicles[k], 1)]
              = BuiltInCondition[RoadAt(vehicles[k], 1)] + 1
        /\ traffic_condition[RoadAt(vehicles[k], Len(vehicles[k].route) - 1)]
              = BuiltInCondition[RoadAt(vehicles[k], Len(vehicles[k].route) - 1)] - 1

\* C18: a step leaves the ledger as it is or adds one record at its end: the
\* records already there keep their places and their contents, whatever
\* analyze_traffic_data and its merge sort do in between.
LedgerIsAppendOnly ==
    [][\/ trip_records' = trip_records
       \/ /\ Len(trip_records') = Len(trip_records) + 1
          /\ SubSeq(trip_records', 1, Len(trip_records)) = trip_records]_vars

\* An analysis has sorted two records or more into another order than the
\* ledger's, and a record has been added since.
RecordedAfterReorderingAnalysis ==
    /\ HasStats
    /\ analysis.total_trips >= 2
    /\ Len(trip_records) > analysis.total_trips
    /\ analysis.sorted_trips # SubSeq(trip_records, 1, analysis.total_trips)

\* C19: a light's history gets one entry, the values of the roads into its
\* location, when the light goes from RED to GREEN and at no other step; it
\* never holds more than 100 entries, and an entry added to a history of 100
\* pushes out the oldest.
HistoryKeepsLast100 ==
    /\ [](\A c \in DOMAIN lights : Len(lights[c].traffic_history) <= 100)
    /\ [][\A c \in DOMAIN lights :
            lights'[c].traffic_history =
                IF lights[c].state = "RED" /\ lights'[c].state = "GREEN"
                THEN Append(IF Len(lights[c].traffic_history) = 100
                            THEN Tail(lights[c].traffic_history)
                            ELSE lights[c].traffic_history,
                            IncomingTraffic(edges, traffic_condition, c))
                ELSE lights[c].traffic_history]_vars

\* A light has begun its 101st cycle: its history holds 100 entries, and the
\* entry of the first cycle, taken at the built-in levels, is no longer the
\* first.
HistoryDroppedOldest ==
    \E c \in DOMAIN lights :
        /\ lights[c].state = "GREEN"
        /\ now = Ticks(100 * lights[c].base_cycle_time)
        /\ Len(lights[c].traffic_history) = 100
        /\ lights[c].traffic_history[1] # IncomingTraffic(edges, BuiltInCondition, c)

\* The step is a departure of vehicle k: a segment is logged and the travel
\* wait begins.
Departs(k) ==
    /\ vehicles'[k].pc = "travel"
    /\ Len(vehicles'[k].travel_data) = Len(vehicles[k].travel_data) + 1

\* The departure of vehicle k onto road e uses the one level the road has as
\* the step begins: for the segment's label and travel time, for the wait,
\* and as the level the entry nudge starts from.
DepartsOnOneLevel(k, e, segment) ==
    /\ segment.from = e[1] /\ segment.to = e[2]
    /\ segment.traffic = ConditionName(traffic_condition[e])
    /\ segment.travel_time = TravelTicks(e[1], e[2], vehicles[k].speed_multiplier,
                                         TRAFFIC_FACTOR[traffic_condition[e]])
    /\ traffic_condition'[e] \in {traffic_condition[e],
                                   Min(traffic_condition[e] + 1, CONGESTED)}
    /\ Event(now' + segment.travel_time, NORMAL, eid, "vehicle", k) \in queue'

\* C20: a step of the run resumes one entity, the one whose wait ends first,
\* and runs it to its next wait: the waits of all others stay pending, no
\* other light or vehicle changes, and the levels change only if the entity
\* is the updater or a vehicle.  So a departing vehicle reads, logs and
\* nudges one and the same level of its road, a route planned in the step is
\* the router's answer on the levels the step began with, and a drive()
\* restarted by a reroute is the very next entity to run.
OneEntityRunsBetweenWaits ==
    [][(run_state = "running" /\ queue # {})
         => /\ now' = NextEvent.time
            /\ queue \ {NextEvent} \subseteq queue'
            /\ \A c \in DOMAIN lights :
                  (NextEvent.kind # "light" \/ AllCities[NextEvent.who] # c)
                     => lights'[c] = lights[c]
            /\ \A k \in DOMAIN vehicles :
                  IF NextEvent.kind = "vehicle" /\ NextEvent.who = k
                  THEN /\ Departs(k)
                         => DepartsOnOneLevel(k, Traversed(vehicles'[k]),
                               vehicles'[k].travel_data[Len(vehicles'[k].travel_data)])
                       /\ (vehicles[k].pc = "start" /\ Len(vehicles'[k].route) >= 1)
                         => vehicles'[k].route =
                               find_shortest_path(edges, traffic_condition, vehicles[k].start,
                                                  vehicles[k].destination,
                                                  vehicles[k].vehicle_type).path
                       /\ (vehicles'[k].pc = "start" /\ run_state' = "running")
                         => NextEvent' \in { Event(now', URGENT, eid, "vehicle", k) }
                                            \cup { x \in queue : x.kind = "until" }
                  ELSE vehicles'[k] = vehicles[k]
            /\ NextEvent.kind \notin {"vehicle", "updater"}
                  => traffic_condition' = traffic_condition]_vars

\* A vehicle has this instant departed onto a road that its entry nudge took
\* one level up: the segment it logged names the level it read.
DepartedWithNudgeApplied ==
    \E k \in DOMAIN vehicles :
        /\ vehicles[k].pc = "travel"
        /\ \E e \in queue : e.kind = "vehicle" /\ e.who = k /\ e.eid = eid - 1
                              /\ e.time = now + vehicles[k].pending
        /\ now > 0
        /\ traffic_condition[Traversed(vehicles[k])] > LIGHT
        /\ vehicles[k].travel_data[Len(vehicles[k].travel_data)].traffic
              = ConditionName(traffic_condition[Traversed(vehicles[k])] - 1)

\* ------------------------------------------------------ order of dispatch
\* C21: events scheduled for the same virtual time are dispatched in the
\* order in which they were scheduled (the event counter eid numbers the
\* events in that order): the event dispatched next is the earliest-scheduled
\* of the events pending for its time; and the clock never decreases from
\* one dispatched event to the next.
SameTimeEventsAreDispatchedInOrder ==
    [][(run_state = "running" /\ queue # {})
         => /\ \A y \in queue : y.time = NextEvent.time /\ y # NextEvent
                                   => NextEvent.eid < y.eid
            /\ now' >= now]_vars

\* ------------------------------------------------------------ the horizon
\* A vehicle whose drive() is suspended in a wait, or not yet started.
InFlight(v) == v.pc \in {"start", "red_wait", "travel"}

\* C22: the clock never passes the horizon simulation_time; the step that
\* reaches it dispatches nothing: no light, vehicle, road level, ledger entry
\* or scheduled event changes, and the run stops without an error; every
\* TripRecord's timestamp is at most the horizon; and once the run has
\* stopped, the vehicles still in flight have no TripRecord and their waits
\* are left pending.
NothingIsDispatchedAtTheHorizon ==
    /\ [](/\ now <= Ticks(simulation_time)
          /\ \A r \in 1..Len(trip_records) :
                trip_records[r].timestamp <= Ticks(simulation_time)
          /\ run_state = "stopped"
                => /\ now = Ticks(simulation_time)
                   /\ \A k \in DOMAIN vehicles :
                         InFlight(vehicles[k])
                            => /\ RecordsOf(k) = {}
                               /\ \E e \in queue : e.kind = "vehicle" /\ e.who = k)
    /\ [][now' >= Ticks(simulation_time)
            => /\ UNCHANGED <<ledgerVars, netVars, lights, vehicles, eid>>
               /\ queue' \subseteq queue
               /\ run_state' = "stopped"]_vars

\* The run has stopped at the horizon with a vehicle on the road, another
\* entity's wait ending at that very instant, and nothing in the ledger.
StoppedWithVehicleInFlight ==
    /\ run_state = "stopped"
    /\ trip_records = <<>>
    /\ \E k \in DOMAIN vehicles : vehicles[k].pc = "travel" /\ Len(vehicles[k].travel_data) > 1
    /\ \E e \in queue : e.time = now /\ e.kind = "updater"

\* ------------------------------------------------- the router's edge cases
\* C24: find_shortest_path(X, X, class) returns the one-node path [X] for
\* every location X and every class value, whatever levels the roads have
\* and whichever roads exist.
SameStartAndGoalGivesOneNodePath ==
    (call # NoCall /\ call.start = call.goal)
       => call.result = PathResult(<<call.start>>)

\* Such a call, made with a class that is no key of the speed table, for a
\* location without incoming roads, after the levels have changed.
SameStartAndGoalCalled ==
    /\ call # NoCall
    /\ call.start = call.goal
    /\ call.vehicle_type \notin DOMAIN SPEED_MULTIPLIERS
    /\ \A e \in edges : e[2] # call.goal
    /\ \E e \in edges : traffic_condition[e] = CONGESTED
    /\ call.result.path = <<call.goal>>

\* C25: when no path of existing roads leads from start to goal (the goal has
\* no incoming road), find_shortest_path from any other start returns None,
\* for every class of the speed table and whatever levels the roads have.
UnreachableGoalGivesNone ==
    (/\ call # NoCall
     /\ call.start # call.goal
     /\ call.vehicle_type \in DOMAIN SPEED_MULTIPLIERS
     /\ SimplePaths(edges, <<call.start>>, call.goal) = {})
       => call.result = NonePath

\* None was returned for a goal that has roads out of it and none into it,
\* on levels that differ from the built-in ones.
NoneReturnedForCutOffGoal ==
    /\ call # NoCall
    /\ call.start # call.goal
    /\ call.result = NonePath
    /\ \A e \in edges : e[2] # call.goal
    /\ \E e \in edges : e[1] = call.goal
    /\ Neighbors(edges, call.start) # {}
    /\ traffic_condition # [e \in edges |-> BuiltInCondition[e]]

\* ------------------------------------------------------- the empty ledger
\* C26: analyze_traffic_data called on an empty ledger returns the no-data
\* marker, not statistics and not an error, and leaves the ledger empty; on a
\* ledger with records it returns statistics, never the marker.
EmptyLedgerGivesNoData ==
    [][analysis' # analysis
         => /\ trip_records' = trip_records
            /\ IF trip_records = <<>>
               THEN analysis' = NoData
               ELSE analysis' # NoData /\ analysis'.total_trips = Len(trip_records)]_vars

\* The analysis of the empty ledger has returned, and a trip was recorded
\* after it.
AnalyzedWhileEmpty ==
    /\ analysis = NoData
    /\ Len(trip_records) = 1

\* ------------------------------------------------------ one scripted trip
\* The red-light waits a vehicle may have had on a route of one road: none,
\* or one of 10..60 minutes.
OneRedWait == {0} \cup { Ticks(w) : w \in 10..60 }

\* C27: a run with the scripted truck trip Mumbai -> Pune raises nothing, the
\* truck is a vehicle of the run, and when the horizon (long enough for the
\* trip) is reached the ledger holds exactly one TripRecord of the truck:
\* its route is [Mumbai, Pune], a single road, it was not rerouted (one
\* segment logged) and its travel time is that road's travel time
\* (distance / max_speed) / (0.6 * factor of the level at departure), 2.5
\* hours on LIGHT, plus its red-light wait.
ScriptedTruckTripIsRecorded ==
    (/\ last_add # Unset
     /\ last_add.vehicle_id = "Truck1"
     /\ last_add.vehicle_type = Member(EnumsVehicleType, "TRUCK")
     /\ last_add.start = "Mumbai"
     /\ last_add.destination = "Pune")
       => /\ run_state \in {"setup", "running", "stopped"}
          /\ \E k \in DOMAIN vehicles : vehicles[k].vehicle_id = "Truck1"
          /\ (run_state = "stopped" /\ simulation_time >= SimulationTime)
                => \E r \in 1..Len(trip_records) :
                      /\ \A q \in 1..Len(trip_records) :
                            trip_records[q].vehicle_id = "Truck1" => q = r
                      /\ trip_records[r].vehicle_id = "Truck1"
                      /\ trip_records[r].route = <<"Mumbai", "Pune">>
                      /\ Len(trip_records[r].travel_data) = 1
                      /\ \E c \in TrafficCondition : \E w \in OneRedWait :
                            /\ trip_records[r].travel_data[1].traffic = ConditionName(c)
                            /\ trip_records[r].travel_time
                                  = TravelTicks("Mumbai", "Pune", 6, TRAFFIC_FACTOR[c]) + w
                            /\ c = LIGHT => trip_records[r].travel_time = Ticks(150) + w

\* ------------------------------------------------------- the red-light wait
\* The light check of vehicle k in this step, the vehicle being v before the
\* step and w after it.  A step that ends in the red-light wait found the
\* light of the current node RED, draws a whole number of 10..60 minutes and
\* schedules the vehicle's resumption after it, with no segment logged yet;
\* a step that departs without a wait found the light GREEN or YELLOW; a
\* step that ends the wait departs on the same road and adds the delay to
\* the cumulative travel time.
WaitsOnlyAtRed(k, v, w) ==
    /\ w.pc = "red_wait"
          => /\ lights[w.current_node].state = "RED"
             /\ w.pending \in { Ticks(m) : m \in 10..60 }
             /\ Event(now' + w.pending, NORMAL, eid, "vehicle", k) \in queue'
             /\ w.travel_data = v.travel_data
             /\ traffic_condition'[Traversed(w)] = traffic_condition[Traversed(w)]
    /\ (w.pc = "travel" /\ v.pc # "red_wait")
          => /\ w.current_node \in DOMAIN lights
             /\ lights[w.current_node].state \in {"GREEN", "YELLOW"}
    /\ v.pc = "red_wait"
          => /\ w.pc = "travel"
             /\ Traversed(w) = Traversed(v)
             /\ w.total_travel_time = v.total_travel_time + v.pending
             /\ Len(w.travel_data) = Len(v.travel_data) + 1

\* C28: at each hop a vehicle waits before departing if and only if the
\* light at its current node is RED at that instant; the wait is a whole
\* number of time units in 10..60 and is added to the vehicle's cumulative
\* travel time; at a GREEN or YELLOW light the vehicle departs at once.
VehicleWaitsExactlyAtRed ==
    [][\A k \in DOMAIN vehicles :
          (Dispatching("vehicle") /\ NextEvent.who = k)
             => WaitsOnlyAtRed(k, vehicles[k], vehicles'[k])]_vars

\* A vehicle has arrived after one red-light wait of 60 minutes on its way,
\* having left another junction without a wait.
ArrivedAfterRedWait ==
    \E k \in DOMAIN vehicles :
        /\ vehicles[k].pc = "done"
        /\ Len(vehicles[k].travel_data) >= 2
        /\ vehicles[k].total_travel_time
              = SeqSum([j \in 1..Len(vehicles[k].travel_data) |->
                           vehicles[k].travel_data[j].travel_time]) + Ticks(60)

\* ------------------------------------------------------ when a reroute applies
\* The reroute check on its own trips: a TrafficManager with one vehicle, as
\* in the drive specification, on the built-in roads.  The motorcycle's plan
\* has four nodes, so its second node is a node where a reroute may apply;
\* the car's plan has three, so its second node is the penultimate one.
RerouteTrips ==
    { <<"Moto1", "MOTORCYCLE", "Nagpur", "Pune">>,
      <<"Car2", "CAR", "Nagpur", "Mumbai">> }

InitReroute ==
    /\ trip_records = <<>>
    /\ analysis = Unset
    /\ edges = BuiltInEdges
    /\ traffic_condition = BuiltInCondition
    /\ call = NoCall
    /\ now = 0
    /\ lights \in LightInputs(edges)
    /\ \E trip \in RerouteTrips :
          vehicles = << VehicleFields(trip[1], Member(VehicleVehicleType, trip[2]),
                                      trip[3], trip[4],
                                      SPEED_MULTIPLIERS[Member(VehicleVehicleType, trip[2])]) >>
    /\ queue = ManagerEvents
                 \cup { Event(0, URGENT, Cardinality(Cities) + 1, "vehicle", 1),
                        Event(Ticks(SimulationTime), URGENT, Cardinality(Cities) + 2,
                              "until", 0) }
    /\ eid = Cardinality(Cities) + 3
    /\ run_state = "running"
    /\ last_add = Unset
    /\ simulation_time = SimulationTime

NextReroute ==
    \/ LightStep
    \/ UpdaterStart
    \/ UpdaterStep
    \/ VehicleStep
    \/ ProcessEnded
    \/ HorizonReached

SpecReroute == InitReroute /\ [][NextReroute]_vars

\* The conditions of a reroute of vehicle v at hop i (from 0), read on the
\* levels tc: the hop is not the first, the current node is neither
\* the destination nor the penultimate node of the route, the mean speed
\* factor of the remaining roads is below 0.7, the router's fresh path from
\* the current node differs from the remaining route, and the new route new
\* is the visited part followed by that path.
RerouteIsDue(v, i, tc, new) ==
    LET current_node == v.route[i + 1]
        remaining_route == SubSeq(v.route, i + 1, Len(v.route))
        fresh == find_shortest_path(edges, tc, current_node, v.destination, v.vehicle_type)
    IN  /\ i > 0
        /\ current_node # v.destination
        /\ current_node # v.route[Len(v.route) - 1]
        /\ 10 * CongestionLevel(tc, remaining_route)
              < 10 * RoutePlanningThreshold * (Len(remaining_route) - 1)
        /\ fresh.status = "path"
        /\ fresh.path # remaining_route
        /\ new = SubSeq(v.route, 1, i) \o fresh.path

\* C29: a reroute changes a vehicle's route only at a hop that is not the
\* first, at a node that is neither the destination nor the penultimate node
\* of the route, when the mean speed factor of the remaining planned roads is
\* below 0.7 and the freshly computed path from the node differs from the
\* remaining route; in every other resumption of a vehicle on its way (the
\* first hop, the end of a red-light wait, a hop where one of the conditions
\* fails) the route is left as it is and no restart is scheduled.
RerouteOnlyWhenDue ==
    [][\A k \in DOMAIN vehicles :
          (Dispatching("vehicle") /\ NextEvent.who = k)
             => \/ /\ vehicles[k].pc = "travel"
                   /\ vehicles'[k].pc = "start"
                   /\ RerouteIsDue(vehicles[k], vehicles[k].i + 1, traffic_condition',
                                   vehicles'[k].route)
                \/ /\ \A e \in queue' : ~(e.kind = "vehicle" /\ e.who = k /\ e.prio = URGENT)
                   /\ vehicles[k].pc # "start" => vehicles'[k].route = vehicles[k].route]_vars

\* A reroute has just been applied at the second node of a route of four.
ReroutedAtSecondNode ==
    \E k \in DOMAIN vehicles :
        /\ vehicles[k].pc = "start"
        /\ vehicles[k].i = 1
        /\ Len(vehicles[k].travel_data) = 1
        /\ vehicles[k].route[2] = vehicles[k].current_node
        /\ Event(now, URGENT, eid - 2, "vehicle", k) \in queue

\* ------------------------------------------------ how the green time is chosen
\* The multipliers of the four known junction types, in tenths.
junction_multipliers ==
    [j \in BasicJunctionTypes \cup {"smart_intersection"} |->
        CASE j = "highway_intersection" -> 7
          [] j = "city_intersection" -> 10
          [] j = "rural_intersection" -> 13
          [] j = "smart_intersection" -> 15]

\* clamp(average factor * 100 * multiplier / 2, 10, 60) in whole time units,
\* for the incoming factors (tenths) and the multiplier (tenths): the
\* quotient sum * multiplier / (2 * count), rounded down; 10 with no
\* incoming road.
ClampedGreenTime(incoming, multiplier) ==
    IF Len(incoming) = 0 THEN 10
    ELSE Max(10, Min((SeqSum(incoming) * multiplier) \div (2 * Len(incoming)), 60))

\* C30: a light that has begun a cycle took its green time from the Markov
\* prediction if and only if it is adaptive (smart) and its history, with
\* the current observation appended, has more than 10 entries; otherwise
\* its green time is clamp(average incoming factor * 100 * multiplier / 2,
\* 10, 60) with the multipliers highway 0.7, city 1.0, rural 1.3, smart 1.5,
\* which is the minimum 10 for a location without incoming roads.
GreenTimeFollowsTheRule ==
    \A c \in DOMAIN lights :
        (lights[c].pc = "green" /\ lights[c].junction_type \in DOMAIN junction_multipliers)
           => IF lights[c].adaptive /\ Len(lights[c].traffic_history) > 10
              THEN lights[c].green_time = optimize_signals_dp(lights[c].traffic_history)
              ELSE lights[c].green_time
                     = ClampedGreenTime(IncomingTraffic(edges, traffic_condition, c),
                                        junction_multipliers[lights[c].junction_type])

\* ------------------------------------------------- prediction specification
\* optimize_signals_dp called on a smart light whose traffic_history holds
\* the entries of two to MaxHistory earlier loop passes: one factor per pass
\* for the one road into the location, in any order of levels, or the empty
\* entries of a location without incoming roads.

\* Where the light stands: the city with one incoming road.
SignalsLocation == "Nagpur"

\* The histories of n entries over the entries in S.
RECURSIVE Histories(_, _)
Histories(S, n) ==
    IF n = 0 THEN {<<>>}
    ELSE { Append(h, x) : h \in Histories(S, n - 1), x \in S }

\* The entries one loop pass may append on edge set E.
EntriesFor(E, location) ==
    { IncomingTraffic(E, tc, location) : tc \in LevelsInto(E, location) }

InitSignals ==
    /\ trip_records = <<>>
    /\ analysis = Unset
    /\ call = NoCall
    /\ \E E \in {BuiltInEdges, WithoutRoadsInto(SignalsLocation)} :
       \E n \in 2..MaxHistory :
       \E past \in Histories(EntriesFor(E, SignalsLocation), n) :
          /\ edges = E
          /\ traffic_condition = [e \in E |-> BuiltInCondition[e]]
          /\ lights = [c \in {SignalsLocation} |->
                          [TrafficLight("smart_intersection", 90)
                              EXCEPT !.traffic_history = past]]
    /\ now = 0
    /\ queue = {}
    /\ eid = 0
    /\ vehicles = <<>>
    /\ run_state = "setup"
    /\ last_add = Unset
    /\ simulation_time = SimulationTime

\* light.optimize_signals_dp() called; the result is held in call.
SignalsCall ==
    /\ call = NoCall
    /\ \E c \in DOMAIN lights :
          call' = [op |-> "optimize_signals_dp", location |-> c,
                   result |-> optimize_signals_dp(lights[c].traffic_history)]
    /\ UNCHANGED <<ledgerVars, netVars, simVars>>

\* The caller has taken the result.
SignalsReturn ==
    /\ call # NoCall
    /\ call' = NoCall
    /\ UNCHANGED <<ledgerVars, netVars, simVars>>

NextSignals == SignalsCall \/ SignalsReturn

SpecSignals == InitSignals /\ [][NextSignals]_vars

\* The discretized levels of a history, min(int(avg * 5), 4) entry by entry.
LevelsOf(history) == [i \in 1..Len(history) |-> Discretize(history[i])]

\* How often level from is followed by level to in the sequence levels.
RECURSIVE TransitionCount(_, _, _)
TransitionCount(levels, from, to) ==
    IF Len(levels) < 2 THEN 0
    ELSE (IF levels[1] = from /\ levels[2] = to THEN 1 ELSE 0)
            + TransitionCount(Tail(levels), from, to)

\* level is the most frequent successor of the last level of the history,
\* the lowest one of several equally frequent.
MostFrequentSuccessor(history, level) ==
    LET levels == LevelsOf(history)
        last == levels[Len(levels)]
    IN  /\ \A q \in 0..4 :
              TransitionCount(levels, last, q) <= TransitionCount(levels, last, level)
        /\ \A q \in 0..(level - 1) :
              TransitionCount(levels, last, q) < TransitionCount(levels, last, level)

\* The call in progress is one of optimize_signals_dp.
SignalsCalled == call # NoCall /\ "op" \in DOMAIN call /\ call.op = "optimize_signals_dp"

\* C31: on a history of at least two observations optimize_signals_dp returns
\* 15 + level/4 * 45 cut to an integer, where level is the most frequent
\* successor of the latest discretized level in the transition counts over the
\* whole history, the lowest of several equally frequent; when the latest
\* level was never followed by anything the level is 0 and the result is 15.
PredictionFollowsTransitionCounts ==
    SignalsCalled =>
        LET history == lights[call.location].traffic_history
            levels == LevelsOf(history)
        IN  Len(history) >= 2 =>
              /\ \E level \in 0..4 :
                    /\ MostFrequentSuccessor(history, level)
                    /\ call.result = 15 + (level * 45) \div 4
              /\ (\A q \in 0..4 : TransitionCount(levels, levels[Len(levels)], q) = 0)
                    => call.result = 15

\* A call on a history in which the latest level was followed equally often
\* by two different levels, answered with the green time of the lower one.
PredictedLowerOfTwoEquallyFrequent ==
    /\ SignalsCalled
    /\ LET levels == LevelsOf(lights[call.location].traffic_history)
           last == levels[Len(levels)]
       IN  \E p, q \in 1..4 :
              /\ p < q
              /\ TransitionCount(levels, last, p) = 1
              /\ TransitionCount(levels, last, q) = 1
              /\ call.result = 15 + (p * 45) \div 4

\* ------------------------------------------------ travel time and the clock
\* The virtual time at which the vehicles of the drive runs are created and
\* their drive() processes started: the initial time of the environment.
AddedAt == 0

\* The time vehicle v has been suspended for on its way, the timeout it is
\* suspended at included.
SuspendedFor(v) ==
    v.total_travel_time + (IF v.pc \in {"red_wait", "travel"} THEN v.pending ELSE 0)

\* C32: the travel time of every trip record is the record's timestamp minus
\* the time the vehicle was added, and on the way the time counted so far
\* plus the timeout the vehicle is suspended at ends at the time it is woken:
\* every red-light wait and every traversal is counted once, also when a
\* reroute restarts drive().
TravelTimeIsElapsedTime ==
    /\ \A r \in 1..Len(trip_records) :
          trip_records[r].travel_time = trip_records[r].timestamp - AddedAt
    /\ \A k \in DOMAIN vehicles : \A e \in queue :
          (e.kind = "vehicle" /\ e.who = k)
             => SuspendedFor(vehicles[k]) = e.time - AddedAt

\* A vehicle whose drive() was restarted by a reroute (it logged more segments
\* than its route has hops) and that waited at a red light has its record.
RecordedAfterRerouteAndRedWait ==
    \E k \in DOMAIN vehicles :
        /\ RecordsOf(k) # {}
        /\ Len(vehicles[k].travel_data) > Len(vehicles[k].route) - 1
        /\ vehicles[k].total_travel_time
              > SeqSum([j \in 1..Len(vehicles[k].travel_data) |->
                           vehicles[k].travel_data[j].travel_time])

\* --------------------------------------------------- manager specification
\* A TrafficManager on its own: the lights setup_traffic_lights creates and
\* the congestion updater, run until ManagerRunTime, so that every light's
\* history grows past the ten entries a smart light predicts from.
InitManager ==
    /\ trip_records = <<>>
    /\ analysis = Unset
    /\ edges = BuiltInEdges
    /\ traffic_condition = BuiltInCondition
    /\ call = NoCall
    /\ now = 0
    /\ lights \in LightInputs(edges)
    /\ vehicles = <<>>
    /\ queue = ManagerEvents
                 \cup { Event(Ticks(ManagerRunTime), URGENT, Cardinality(Cities) + 1, "until", 0) }
    /\ eid = Cardinality(Cities) + 2
    /\ run_state = "running"
    /\ last_add = Unset
    /\ simulation_time = ManagerRunTime

NextManager ==
    \/ LightStep
    \/ UpdaterStart
    \/ UpdaterStep
    \/ HorizonReached

SpecManager == InitManager /\ [][NextManager]_vars

\* road_network.edges() of the whole built-in network of nine locations.
FullEdges == { <<AllRoads[i].source, AllRoads[i].target>> : i \in 1..Len(AllRoads) }

\* C33: no location of the built-in network of nine locations has more than
\* four outgoing roads, so setup_traffic_lights gives none of them a
\* smart_intersection; and in a run no light of the manager is adaptive, so
\* none ever meets the condition under which optimize_signals_dp is called.
NoLightIsEverAdaptive ==
    /\ \A i \in 1..Len(AllCities) :
          /\ Cardinality({ e \in FullEdges : e[1] = AllCities[i] }) <= 4
          /\ "smart_intersection" \notin JunctionTypesFor(FullEdges, AllCities[i])
    /\ \A c \in DOMAIN lights :
          /\ lights[c].junction_type # "smart_intersection"
          /\ ~lights[c].adaptive
          /\ ~(lights[c].adaptive /\ Len(lights[c].traffic_history) > 10)

\* The light of the location with the most outgoing roads of the modelled
\* network is a city intersection and has turned GREEN with more than ten
\* entries in its history.
CityLightGreenWithLongHistory ==
    \E c \in DOMAIN lights :
        /\ \A o \in Cities : Cardinality({ e \in edges : e[1] = o })
                                  <= Cardinality({ e \in edges : e[1] = c })
        /\ lights[c].junction_type = "city_intersection"
        /\ lights[c].state = "GREEN"
        /\ Len(lights[c].traffic_history) > 10

\* ------------------------------------------------------ the first hop at time 0
\* Vehicle k is dispatched for the first step of a drive() started before the
\* run, at time 0.
FirstStepAtZero(k) ==
    /\ Dispatching("vehicle")
    /\ NextEvent.who = k
    /\ NextEvent.time = 0
    /\ vehicles[k].pc = "start"

\* C34: the lights are created before the vehicles and take their first step
\* at time 0 before any vehicle does, so a vehicle added before the run finds
\* every light, the one at its origin included, GREEN when it takes its first
\* step at time 0, and that step is never a red-light wait.
OriginLightIsGreenAtTimeZero ==
    [][\A k \in DOMAIN vehicles :
          FirstStepAtZero(k)
             => /\ \A c \in DOMAIN lights : lights[c].pc = "green" /\ lights[c].state = "GREEN"
                /\ vehicles[k].start \in DOMAIN lights
                /\ vehicles'[k].pc # "red_wait"
                /\ now' = 0]_vars

\* A vehicle is on its first hop since time 0, its origin light GREEN.
FirstHopStartedAtZero ==
    \E k \in DOMAIN vehicles :
        /\ vehicles[k].pc = "travel"
        /\ vehicles[k].i = 0
        /\ vehicles[k].total_travel_time = 0
        /\ now = 0
        /\ lights[vehicles[k].start].state = "GREEN"
        /\ \E e \in queue : e.kind = "vehicle" /\ e.who = k /\ e.time = vehicles[k].pending

\* ------------------------------------------------- one red-light wait per hop
\* The timeouts vehicle k is suspended at in queue q.
VehicleTimeouts(q, k) == { e \in q : e.kind = "vehicle" /\ e.who = k }

\* C35: a vehicle waits for a red light at most once per hop: a step that
\* ends in a red-light wait was not resumed from one, and the wait ends at
\* most 60 minutes after the step; the step resumed from the wait departs on
\* the same hop at the time the wait ends, whatever the light shows then.
DepartsAfterOneRedWait ==
    [][\A k \in DOMAIN vehicles :
          (Dispatching("vehicle") /\ NextEvent.who = k)
             => /\ vehicles'[k].pc = "red_wait"
                    => /\ vehicles[k].pc # "red_wait"
                       /\ \A e \in VehicleTimeouts(queue', k) :
                             e.time - now' <= Ticks(60)
                /\ vehicles[k].pc = "red_wait"
                    => /\ now' = NextEvent.time
                       /\ vehicles'[k].pc = "travel"
                       /\ vehicles'[k].i = vehicles[k].i
                       /\ vehicles'[k].current_node = vehicles[k].current_node
                       /\ vehicles'[k].next_node = vehicles[k].next_node
                       /\ Len(vehicles'[k].travel_data) = Len(vehicles[k].travel_data) + 1
                       /\ VehicleTimeouts(queue', k) # {}]_vars

\* A vehicle has just left its second node after a red-light wait of ten
\* minutes there, while the light of that node still shows RED.
DepartedWhileStillRed ==
    \E k \in DOMAIN vehicles :
        /\ vehicles[k].pc = "travel"
        /\ vehicles[k].i = 1
        /\ Len(vehicles[k].travel_data) = 2
        /\ vehicles[k].total_travel_time = vehicles[k].travel_data[1].travel_time + Ticks(10)
        /\ lights[vehicles[k].current_node].state = "RED"
        /\ \E e \in VehicleTimeouts(queue, k) : e.time = now + vehicles[k].pending

\* ------------------------------------------------------ the spawner's cut-off
\* The wake-ups the spawner is suspended at in queue q.
SpawnerTimeouts(q) == { e \in q : e.kind = "spawner" }

\* C36: the spawner calls add_vehicle, and the vehicle list grows, only at
\* times strictly below nine tenths of simulation_time; a wake-up at or after
\* that time changes nothing and schedules the next one; the endpoints the
\* spawner passes, and those of a vehicle it adds, are two different
\* locations of the network.
SpawnerAddsOnlyBeforeCutOff ==
    [][/\ 10 * now' >= 9 * Ticks(simulation_time) => vehicles' = vehicles
       /\ Dispatching("spawner")
            => /\ 10 * now' >= 9 * Ticks(simulation_time)
                   => /\ last_add' = last_add
                      /\ run_state' = run_state
                      /\ \E e \in SpawnerTimeouts(queue') : e.time > now'
               /\ last_add' # last_add
                   => /\ 10 * now' < 9 * Ticks(simulation_time)
                      /\ last_add'.start \in Cities
                      /\ last_add'.destination \in Cities
                      /\ last_add'.start # last_add'.destination
               /\ vehicles' # vehicles
                   => /\ Len(vehicles') = Len(vehicles) + 1
                      /\ vehicles'[Len(vehicles')].start \in Cities
                      /\ vehicles'[Len(vehicles')].destination
                            \in Cities \ {vehicles'[Len(vehicles')].start}]_vars

\* The spawner has just woken up at or after nine tenths of simulation_time
\* and has gone back to sleep without a call, the run going on.
SpawnerWokeAfterCutOff ==
    /\ run_state = "running"
    /\ 10 * now >= 9 * Ticks(simulation_time)
    /\ now < Ticks(simulation_time)
    /\ \E e \in SpawnerTimeouts(queue) : \E delay \in SpawnDelays :
          e.time = now + Ticks(delay)

\* ------------------------------------------------------ a route always exists
\* The locations reached from those in S along the edges E.
RECURSIVE ReachableFrom(_, _)
ReachableFrom(E, S) ==
    LET next == S \cup { e[2] : e \in { x \in E : x[1] \in S } }
    IN  IF next = S THEN S ELSE ReachableFrom(E, next)

\* Every location of N is reached from every other along E.
StronglyConnected(E, N) == \A n \in N : ReachableFrom(E, {n}) = N

\* The whole built-in network of nine locations is strongly connected, and
\* so is its modelled part.
BuiltInNetworkIsStronglyConnected ==
    /\ StronglyConnected(FullEdges, { AllCities[i] : i \in 1..Len(AllCities) })
    /\ StronglyConnected(BuiltInEdges, Cities)

\* p leads from start to goal along edges of E.
IsRoute(E, p, start, goal) ==
    /\ Len(p) >= 1
    /\ p[1] = start
    /\ p[Len(p)] = goal
    /\ \A j \in 1..(Len(p) - 1) : <<p[j], p[j + 1]>> \in E

\* C37: the built-in network is strongly connected, and in a run on it the
\* roads stay the built-in ones with a congestion level of positive speed
\* factor each, so at every instant the router returns a route from any
\* location to any other for the class of a vehicle, and no vehicle ends
\* without a route, by a return or by the TypeError a None route raises.
RouterAlwaysFindsARoute ==
    /\ BuiltInNetworkIsStronglyConnected
    /\ edges = BuiltInEdges
    /\ \A e \in edges : traffic_condition[e] \in TrafficCondition
                           /\ TRAFFIC_FACTOR[traffic_condition[e]] > 0
    /\ \A k \in DOMAIN vehicles :
          /\ vehicles[k].pc # "returned"
          /\ \A start \in Cities : \A goal \in Cities :
                LET r == find_shortest_path(edges, traffic_condition, start, goal,
                                            vehicles[k].vehicle_type)
                IN  r.status = "path" /\ IsRoute(edges, r.path, start, goal)
    /\ run_state \in {"running", "stopped"}

\* A vehicle was rerouted, on roads whose levels have moved, by a router
\* call that found a route from its node to its destination.
RoutedAgainAfterCongestionChanged ==
    \E k \in DOMAIN vehicles :
        /\ vehicles[k].pc = "start"
        /\ vehicles[k].i > 0
        /\ traffic_condition # BuiltInCondition
        /\ IsRoute(edges, vehicles[k].route, vehicles[k].start, vehicles[k].destination)

====
